---- MODULE Spec2Model ----
(***************************************************************************)
(* A model of the request-handling core of the LLM inference proxy:        *)
(* the circuit breaker (pkg/resilience/circuitbreaker.go), the key pool    *)
(* (pkg/resilience, KeyPool), the semantic cache (pkg/cache) and the unary *)
(* Infer handler (pkg/proxy/handler.go).                                   *)
(*                                                                         *)
(* Each component has its own specification over the shared variables:     *)
(*   SpecBreaker  concurrent Execute calls on one breaker                  *)
(*   SpecKeyPool  Next / MarkRateLimited / UpdateRemaining on one pool     *)
(*   SpecCache    SemanticCache.Store and Lookup over the KV store and     *)
(*                the vector index                                         *)
(*   SpecInfer    concurrent unary Infer requests through one provider's   *)
(*                key pool and breaker                                     *)
(*   SpecTrip     five such requests against a provider that always fails  *)
(*   SpecRetry    one execution of Retry, step by step                     *)
(*   SpecStream   one InferStream request: the handler's loop, the         *)
(*                provider's producer goroutine, the channel between them  *)
(* Time is an integer clock `now`; a Tick action advances it.              *)
(***************************************************************************)
EXTENDS Integers, Sequences, FiniteSets, TLC

VARIABLES
  now,         \* the wall clock read by time.Now() / time.Since()
  cb,          \* the CircuitBreaker struct (fields named as in the source)
  pc,          \* per Execute call: where the call is
  err,         \* per Execute call: what fn() returned / what Execute returns
  thunkCalls,  \* per Execute call: how many times fn() was invoked
  admittedIn,  \* per Execute call: the stored state allowRequest found
  hist,        \* history of recorded results (for the claims only)
  keys,        \* KeyPool.keys: the entries, in order
  current,     \* KeyPool.current: the cursor (0-based, as in the source)
  kpRet,       \* what the latest KeyPool.Next returned
  embedding,   \* the embedder: the vector it returns for each prompt
  redis,       \* the KV store: cache key -> serialized response
  qdrant,      \* the vector index: a set of points
  nextUUID,    \* how many point ids uuid.New() has handed out
  store,       \* per SemanticCache.Store task: its locals and position
  lookup,      \* per SemanticCache.Lookup call: its locals and position
  handler,     \* the Handler's configuration for the provider requests use
  metrics,     \* the metrics registry (the series Infer touches)
  req,         \* per unary Infer request: its locals and position
  probe,       \* history: the last request that entered as a lone probe
  rt,          \* one execution of Retry: its configuration, locals, position
  sreq,        \* per InferStream request: the handler's locals, the provider's
               \* producer goroutine, the channel between them, the downstream
  started      \* the detached Store tasks started so far, in order

cbVars == <<cb, pc, err, thunkCalls, admittedIn, hist>>
kpVars == <<keys, current, kpRet>>
cacheVars == <<embedding, redis, qdrant, nextUUID, store, lookup>>

reqVars == <<handler, metrics, req, probe>>

retryVars == <<rt>>
streamVars == <<sreq, started>>

vars == <<now, cbVars, kpVars, cacheVars, reqVars, retryVars, streamVars>>

\* What the actions of one component leave alone
notBreaker == <<kpVars, cacheVars, reqVars, retryVars, streamVars>>
notKeyPool == <<cbVars, cacheVars, reqVars, retryVars, streamVars>>
notCache == <<now, cbVars, kpVars, reqVars, retryVars, streamVars>>
notInfer ==
  <<pc, err, thunkCalls, admittedIn, kpRet, cacheVars, retryVars, sreq>>
notRetry == <<now, cbVars, kpVars, cacheVars, reqVars, streamVars>>
notStream ==
  <<now, cbVars, kpRet, cacheVars, req, probe, retryVars>>

----------------------------------------------------------------------------
(* Bounds of the model                                                      *)

MaxTime == 4
MaxThreshold == 2
MaxCooldown == 2
NumCalls == 4
MaxKeys == 2
MaxPoolTime == 2
NumStores == 1
NumLookups == 1
NumRequests == 2
MaxRetries == 1
MaxInferTime == 80
TickStep == 40
MaxDelay == 4
JitterSteps == 4
MaxLines == 3

Calls == 1..NumCalls

----------------------------------------------------------------------------
(* pkg/resilience/circuitbreaker.go                                         *)

StateClosed == "Closed"
StateOpen == "Open"
StateHalfOpen == "HalfOpen"

DefaultFailureThreshold == 5
DefaultCooldown == 30

\* The zero time.Time of a breaker that has recorded no failure: an instant
\* far before any reading of the clock.
ZeroTime == 0 - 1000

\* time.Since(t) at clock reading `t0`
Since(t, t0) == t0 - t

NewCircuitBreaker(cfgThreshold, cfgCooldown) ==
  [ state               |-> StateClosed,
    failureThreshold    |-> IF cfgThreshold <= 0 THEN DefaultFailureThreshold
                                                 ELSE cfgThreshold,
    consecutiveFailures |-> 0,
    cooldown            |-> IF cfgCooldown <= 0 THEN DefaultCooldown
                                                ELSE cfgCooldown,
    lastFailure         |-> ZeroTime,
    totalSuccesses      |-> 0,
    totalFailures       |-> 0,
    totalRejected       |-> 0 ]

\* A variant of allowRequest that probes as soon as the cooldown is reached
\* (>= for >).
allowRequest_AtCooldown(b, t) ==
  CASE b.state = StateClosed -> [ok |-> TRUE, cb |-> b]
    [] b.state = StateOpen ->
         IF Since(b.lastFailure, t) >= b.cooldown
           THEN [ok |-> TRUE, cb |-> [b EXCEPT !.state = StateHalfOpen]]
           ELSE [ok |-> FALSE, cb |-> b]
    [] b.state = StateHalfOpen -> [ok |-> TRUE, cb |-> b]
    [] OTHER -> [ok |-> FALSE, cb |-> b]

\* allowRequest at clock reading t: whether the call is admitted, and the
\* breaker afterwards.
allowRequest(b, t) ==
  CASE b.state = StateClosed -> [ok |-> TRUE, cb |-> b]
    [] b.state = StateOpen ->
         IF Since(b.lastFailure, t) > b.cooldown
           THEN [ok |-> TRUE, cb |-> [b EXCEPT !.state = StateHalfOpen]]
           ELSE [ok |-> FALSE, cb |-> b]
    [] b.state = StateHalfOpen -> [ok |-> TRUE, cb |-> b]
    [] OTHER -> [ok |-> FALSE, cb |-> b]

\* A variant of recordFailure that trips only above the threshold.
recordFailure_TripAbove(b, t) ==
  LET n == b.consecutiveFailures + 1
  IN [b EXCEPT !.consecutiveFailures = n,
               !.totalFailures = @ + 1,
               !.lastFailure = t,
               !.state = IF n > b.failureThreshold THEN StateOpen ELSE @]

\* A variant of recordFailure that forgets the cumulative failure count.
recordFailure_NoTotal(b, t) ==
  LET n == b.consecutiveFailures + 1
  IN [b EXCEPT !.consecutiveFailures = n,
               !.lastFailure = t,
               !.state = IF n >= b.failureThreshold THEN StateOpen ELSE @]

recordFailure(b, t) ==
  LET n == b.consecutiveFailures + 1
  IN [b EXCEPT !.consecutiveFailures = n,
               !.totalFailures = @ + 1,
               !.lastFailure = t,
               !.state = IF n >= b.failureThreshold THEN StateOpen ELSE @]

\* A variant of recordSuccess that resets the consecutive-failure counter
\* only when it closes the breaker.
recordSuccess_ResetOnClose(b) ==
  [b EXCEPT !.totalSuccesses = @ + 1,
            !.consecutiveFailures = IF b.state = StateHalfOpen THEN 0 ELSE @,
            !.state = IF @ = StateHalfOpen THEN StateClosed ELSE @]

recordSuccess(b) ==
  [b EXCEPT !.totalSuccesses = @ + 1,
            !.consecutiveFailures = 0,
            !.state = IF @ = StateHalfOpen THEN StateClosed ELSE @]

\* A variant of the rejection path that returns without counting.
countRejected_Skipped(b) == b

\* Execute, lines 65-67: the rejection is counted under the lock.
countRejected(b) == [b EXCEPT !.totalRejected = @ + 1]

\* A variant of State() that reports the stored state as it is.
State_Stored(b, t) == b.state

\* State(): the observed state; the breaker is not changed.
State(b, t) ==
  IF b.state = StateOpen /\ Since(b.lastFailure, t) > b.cooldown
    THEN StateHalfOpen
    ELSE b.state

----------------------------------------------------------------------------
(* KeyPool (package resilience)                                             *)

KeyNames == {"k1", "k2"}

NoReturn == [key |-> "", err |-> "none", earliest |-> ZeroTime]

\* NewKeyPool: one entry per configured key, Remaining unknown (-1), the
\* other fields at their zero values; the cursor at 0.
NewKeyPool(ks) ==
  [i \in 1..Len(ks) |->
     [Key |-> ks[i], Remaining |-> -1, ResetAt |-> ZeroTime,
      Exhausted |-> FALSE]]

\* time.Time.After / Before
After(t, u) == t > u
Before(t, u) == t < u


\* Next, lines 58-59: an exhausted entry whose cooldown has passed is reset.
ResetEntry(e) == [e EXCEPT !.Exhausted = FALSE, !.Remaining = -1]

\* A variant of the search for the earliest reset time that stops at the
\* first entry.
EarliestFrom_First(ks, i, earliest) == earliest

\* Next, lines 68-74: the earliest ResetAt over the pool.
RECURSIVE EarliestFrom(_, _, _)
EarliestFrom(ks, i, earliest) ==
  IF i > Len(ks) THEN earliest
  ELSE EarliestFrom(ks, i + 1,
         IF Before(ks[i].ResetAt, earliest) THEN ks[i].ResetAt ELSE earliest)

\* A variant of the walk that leaves the cursor on the entry it returns.
RECURSIVE NextWalk_CursorStays(_, _, _, _)
NextWalk_CursorStays(ks, cur, i, t) ==
  LET n == Len(ks)
      idx == (cur + i) % n
      entry == IF ks[idx + 1].Exhausted /\ After(t, ks[idx + 1].ResetAt)
                 THEN ResetEntry(ks[idx + 1])
                 ELSE ks[idx + 1]
      ks2 == [ks EXCEPT ![idx + 1] = entry]
  IN IF i >= n
       THEN [keys |-> ks, current |-> cur,
             ret |-> [key |-> "", err |-> "all keys exhausted",
                      earliest |-> EarliestFrom(ks, 2, ks[1].ResetAt)]]
       ELSE IF ~entry.Exhausted
         THEN [keys |-> ks2, current |-> idx,
               ret |-> [key |-> entry.Key, err |-> "nil",
                        earliest |-> ZeroTime]]
         ELSE NextWalk_CursorStays(ks2, cur, i + 1, t)

\* Next, lines 52-66: the walk of the loop from its i-th iteration, at clock
\* reading t.  Entries are 1-based here; idx is the source's 0-based index.
RECURSIVE NextWalk(_, _, _, _)
NextWalk(ks, cur, i, t) ==
  LET n == Len(ks)
      idx == (cur + i) % n
      entry == IF ks[idx + 1].Exhausted /\ After(t, ks[idx + 1].ResetAt)
                 THEN ResetEntry(ks[idx + 1])
                 ELSE ks[idx + 1]
      ks2 == [ks EXCEPT ![idx + 1] = entry]
  IN IF i >= n
       THEN [keys |-> ks, current |-> cur,
             ret |-> [key |-> "", err |-> "all keys exhausted",
                      earliest |-> EarliestFrom(ks, 2, ks[1].ResetAt)]]
       ELSE IF ~entry.Exhausted
         THEN [keys |-> ks2, current |-> (idx + 1) % n,
               ret |-> [key |-> entry.Key, err |-> "nil",
                        earliest |-> ZeroTime]]
         ELSE NextWalk(ks2, cur, i + 1, t)

\* KeyPool.Next at clock reading t
KeyPoolNext(ks, cur, t) ==
  IF Len(ks) = 0
    THEN [keys |-> ks, current |-> cur,
          ret |-> [key |-> "", err |-> "no keys configured",
                   earliest |-> ZeroTime]]
    ELSE NextWalk(ks, cur, 0, t)

\* The index of the first entry holding `key`, 0 when there is none
RECURSIVE FirstIndex(_, _, _)
FirstIndex(ks, key, i) ==
  IF i > Len(ks) THEN 0
  ELSE IF ks[i].Key = key THEN i ELSE FirstIndex(ks, key, i + 1)

\* A variant of MarkRateLimited that records the reset time without
\* flagging the entry.
MarkRateLimited_NoFlag(ks, key, resetAt) ==
  LET i == FirstIndex(ks, key, 1)
  IN IF i = 0 THEN ks
     ELSE [ks EXCEPT ![i] = [@ EXCEPT !.ResetAt = resetAt, !.Remaining = 0]]

MarkRateLimited(ks, key, resetAt) ==
  LET i == FirstIndex(ks, key, 1)
  IN IF i = 0 THEN ks
     ELSE [ks EXCEPT ![i] = [@ EXCEPT !.Exhausted = TRUE,
                                      !.ResetAt = resetAt,
                                      !.Remaining = 0]]

\* A variant of UpdateRemaining that records the budget without flagging an
\* empty one.
UpdateRemaining_NoFlag(ks, key, remaining, resetAt) ==
  LET i == FirstIndex(ks, key, 1)
  IN IF i = 0 THEN ks
     ELSE [ks EXCEPT ![i] = [@ EXCEPT !.Remaining = remaining,
                                      !.ResetAt = resetAt]]

UpdateRemaining(ks, key, remaining, resetAt) ==
  LET i == FirstIndex(ks, key, 1)
  IN IF i = 0 THEN ks
     ELSE [ks EXCEPT ![i] = [@ EXCEPT !.Remaining = remaining,
                                      !.ResetAt = resetAt,
                                      !.Exhausted = IF remaining = 0
                                                      THEN TRUE ELSE @]]

----------------------------------------------------------------------------
(* Semantic cache (package cache): embedder, vector store, KV store         *)

Prompts == {"p1", "p2"}
Responses == {"r1", "r2"}
NoResponse == "none"

\* Embeddings are points 1, 2, 4 on a line; Score is what the vector index
\* reports for two of them, a cosine similarity in hundredths: 100 for equal
\* vectors, 97 for neighbours, below the threshold otherwise.
Vectors == {1, 2, 4}
Score(v, w) == 100 - 3 * (IF v > w THEN v - w ELSE w - v)

\* SIMILARITY_THRESHOLD, default 0.95, in hundredths
DefaultThreshold == 95

\* cacheKeyFromPrompt: "llm_cache:" followed by the hex of the first 16
\* bytes of SHA-256(prompt); distinct prompts get distinct digests.
cacheKeyFromPrompt(prompt) ==
  CASE prompt = "p1" -> "llm_cache:5d41402abc4b2a76"
    [] prompt = "p2" -> "llm_cache:7d793037a0760186"

\* uuid.New().String(): the n-th fresh point id
NewUUID(n) ==
  CASE n = 1 -> "0b1e7c1a-0001"
    [] n = 2 -> "0b1e7c1a-0002"
    [] n = 3 -> "0b1e7c1a-0003"
    [] OTHER -> "0b1e7c1a-0004"

\* RedisCache.Set / Get: the response is stored as its JSON text under the
\* key; a key that is absent (never set, or expired) is "not found".
Marshal(resp) == <<"json", resp>>
Unmarshal(val) == val[2]

RedisSet(kv, key, resp) ==
  [k \in DOMAIN kv \cup {key} |-> IF k = key THEN Marshal(resp) ELSE kv[k]]

RedisGet(kv, key) ==
  IF key \in DOMAIN kv
    THEN [resp |-> Unmarshal(kv[key]), found |-> TRUE]
    ELSE [resp |-> NoResponse, found |-> FALSE]

\* VectorStore.Upsert: one new point, id = a fresh uuid, the cache key in the
\* payload.
Upsert(points, id, cacheKey, vector) ==
  points \cup {[ID |-> id, Vector |-> vector,
                Payload |-> [cache_key |-> cacheKey]]}

\* VectorStore.Search with limit 1 and a score threshold: the results the
\* index may give.  SearchResult.ID is the id of the top point.
Search(points, vector, threshold) ==
  LET near == {pt \in points : Score(vector, pt.Vector) >= threshold}
      top == {pt \in near :
                \A q \in near : Score(vector, q.Vector)
                                  <= Score(vector, pt.Vector)}
  IN IF near = {}
       THEN {[ID |-> "", Score |-> 0, Found |-> FALSE]}
       ELSE {[ID |-> pt.ID, Score |-> Score(vector, pt.Vector),
              Found |-> TRUE] : pt \in top}

Miss == [Hit |-> FALSE, Response |-> NoResponse]

----------------------------------------------------------------------------
(* Retry (pkg/resilience/retry.go) and the error classes of the handler     *)

\* What one call of Provider.Infer returns: nil, an error whose text carries
\* one of 429, 500, 502, 503, 504, or an error whose text carries none.
ProviderOutcomes == {"ok", "e5xx", "e4xx"}

\* A variant of IsServerError that accepts every error.
IsServerError_AnyError(e) == TRUE

\* IsServerError on the errors of the model.  Retry wraps the last error
\* with %w, keeping its text; a cancellation error ("ctx") and
\* ErrCircuitOpen ("open") carry no status code.
IsServerError(e) == e = "e5xx"

\* Whether the context is done at the i-th place Retry looks at it
\* (before attempt a: place 2a; during the backoff after it: place 2a + 1).
\* cancelAt = -1: the context is never done.
CtxDone(cancelAt, i) == cancelAt >= 0 /\ cancelAt <= i

\* Retry from attempt a on: the error returned and the number of times the
\* thunk was invoked; outs[a + 1] is what attempt a returns.
RECURSIVE RetryFrom(_, _, _, _, _)
RetryFrom(maxRetries, a, outs, cancelAt, calls) ==
  IF CtxDone(cancelAt, 2 * a)
    THEN [err |-> "ctx", calls |-> calls]
    ELSE LET lastErr == outs[a + 1]
         IN IF lastErr = "ok" THEN [err |-> "nil", calls |-> calls + 1]
            ELSE IF a = maxRetries
              THEN [err |-> lastErr, calls |-> calls + 1]
            ELSE IF ~IsServerError(lastErr)
              THEN [err |-> lastErr, calls |-> calls + 1]
            ELSE IF CtxDone(cancelAt, 2 * a + 1)
              THEN [err |-> "ctx", calls |-> calls + 1]
            ELSE RetryFrom(maxRetries, a + 1, outs, cancelAt, calls + 1)

Retry(maxRetries, outs, cancelAt) == RetryFrom(maxRetries, 0, outs, cancelAt, 0)

\* What a Retry can return when the provider's answers are drawn from
\* `outcomes` and the place where the context is done from `cancels`
RetryResults(maxRetries, outcomes, cancels) ==
  {Retry(maxRetries, outs, cancelAt) : outs \in outcomes, cancelAt \in cancels}

\* handler.go line 153: a rate-limited key is benched for 60 seconds
RateLimitWindow == 60

----------------------------------------------------------------------------
(* History kept for the claims: the number of failures recorded since the   *)
(* last recorded success, the instant of the most recently recorded         *)
(* failure, and whether the breaker is in a "tripped window": F consecutive *)
(* failures have been recorded and, since the latest of them, there has     *)
(* been no instant with  now - last > cooldown.                             *)

HistInit == [run |-> 0, last |-> ZeroTime, tripped |-> FALSE]

HistFailure(h, b, t) ==
  [run |-> h.run + 1, last |-> t,
   tripped |-> h.tripped \/ (h.run + 1 >= b.failureThreshold)]

HistSuccess(h) == [h EXCEPT !.run = 0]

HistTick(h, b, t) ==
  [h EXCEPT !.tripped = @ /\ ~(t - h.last > b.cooldown)]

----------------------------------------------------------------------------
(* Concurrent Execute calls on one breaker.  A call is a sequence of        *)
(* critical sections of cb.mu with fn() running between them, unlocked.     *)
(* Calls are identical, so they are numbered in the order in which they     *)
(* reach allowRequest.                                                      *)

\* Execute line 64: allowRequest() under the lock
CBAllow(c) ==
  /\ pc[c] = "idle"
  /\ IF c = 1 THEN TRUE ELSE pc[c - 1] # "idle"
  /\ LET r == allowRequest(cb, now)
     IN /\ cb' = r.cb
        /\ pc' = [pc EXCEPT ![c] = IF r.ok THEN "admitted" ELSE "rejecting"]
  /\ admittedIn' = [admittedIn EXCEPT ![c] = cb.state]
  /\ UNCHANGED <<now, err, thunkCalls, hist>>

\* Execute lines 65-68: count the rejection, return ErrCircuitOpen
CBReject(c) ==
  /\ pc[c] = "rejecting"
  /\ cb' = countRejected(cb)
  /\ pc' = [pc EXCEPT ![c] = "rejected"]
  /\ err' = [err EXCEPT ![c] = "ErrCircuitOpen"]
  /\ UNCHANGED <<now, thunkCalls, admittedIn, hist>>

\* Execute line 71: fn() runs with the lock released and returns nil or an
\* error
CBThunk(c) ==
  /\ pc[c] = "admitted"
  /\ \E e \in {"nil", "error"} : err' = [err EXCEPT ![c] = e]
  /\ thunkCalls' = [thunkCalls EXCEPT ![c] = @ + 1]
  /\ pc' = [pc EXCEPT ![c] = "returned"]
  /\ UNCHANGED <<now, cb, admittedIn, hist>>

\* Execute lines 73-82: the outcome is recorded under the lock
CBRecord(c) ==
  /\ pc[c] = "returned"
  /\ IF err[c] # "nil"
       THEN /\ cb' = recordFailure(cb, now)
            /\ hist' = HistFailure(hist, cb, now)
            /\ pc' = [pc EXCEPT ![c] = "failed"]
       ELSE /\ cb' = recordSuccess(cb)
            /\ hist' = HistSuccess(hist)
            /\ pc' = [pc EXCEPT ![c] = "succeeded"]
  /\ UNCHANGED <<now, err, thunkCalls, admittedIn>>

\* The clock advances; nothing else changes.
Tick ==
  /\ now < MaxTime
  /\ now' = now + 1
  /\ hist' = HistTick(hist, cb, now + 1)
  /\ UNCHANGED <<cb, pc, err, thunkCalls, admittedIn>>

\* The components a specification leaves out: an empty pool, an unused
\* breaker with no calls, an empty cache with no tasks.
NoKeyPool == keys = <<>> /\ current = 0 /\ kpRet = NoReturn
NoBreaker ==
  /\ cb = NewCircuitBreaker(0, 0)
  /\ pc = <<>> /\ err = <<>> /\ thunkCalls = <<>> /\ admittedIn = <<>>
  /\ hist = HistInit
NoCache ==
  /\ embedding = <<>> /\ redis = <<>> /\ qdrant = {} /\ nextUUID = 0
  /\ store = <<>> /\ lookup = <<>>
NoInfer == handler = <<>> /\ metrics = <<>> /\ req = <<>> /\ probe = 0
NoRetry == rt = <<>>
NoStream == sreq = <<>> /\ started = <<>>

InitBreaker ==
  /\ now = 0
  /\ NoKeyPool /\ NoCache /\ NoInfer /\ NoRetry /\ NoStream
  /\ \E f \in 1..MaxThreshold, c \in 1..MaxCooldown :
       cb = NewCircuitBreaker(f, c)
  /\ pc = [c \in Calls |-> "idle"]
  /\ err = [c \in Calls |-> "none"]
  /\ thunkCalls = [c \in Calls |-> 0]
  /\ admittedIn = [c \in Calls |-> "none"]
  /\ hist = HistInit

NextBreaker ==
  \/ \E c \in Calls : CBAllow(c) /\ UNCHANGED notBreaker
  \/ \E c \in Calls : CBReject(c) /\ UNCHANGED notBreaker
  \/ \E c \in Calls : CBThunk(c) /\ UNCHANGED notBreaker
  \/ \E c \in Calls : CBRecord(c) /\ UNCHANGED notBreaker
  \/ Tick /\ UNCHANGED notBreaker

SpecBreaker == InitBreaker /\ [][NextBreaker]_vars

----------------------------------------------------------------------------
(* One key pool under any sequence of Next, MarkRateLimited and             *)
(* UpdateRemaining calls; each call is one critical section of kp.mu.       *)

\* Keys a caller may pass: those of the pool and one the pool does not hold
CallerKeys == KeyNames \cup {"absent"}
ResetTimes == 0..(MaxPoolTime + 1)
RemainingValues == {-1, 0, 1}

KPNext ==
  /\ LET r == KeyPoolNext(keys, current, now)
     IN /\ keys' = r.keys
        /\ current' = r.current
        /\ kpRet' = r.ret
  /\ UNCHANGED now

KPMarkRateLimited ==
  /\ \E k \in CallerKeys, resetAt \in ResetTimes :
       keys' = MarkRateLimited(keys, k, resetAt)
  /\ kpRet' = NoReturn
  /\ UNCHANGED <<now, current>>

KPUpdateRemaining ==
  /\ \E k \in CallerKeys, remaining \in RemainingValues,
        resetAt \in ResetTimes :
       keys' = UpdateRemaining(keys, k, remaining, resetAt)
  /\ kpRet' = NoReturn
  /\ UNCHANGED <<now, current>>

\* The clock advances while the pool is idle.
KPTick ==
  /\ now < MaxPoolTime
  /\ now' = now + 1
  /\ UNCHANGED kpVars

\* The pools of up to MaxKeys keys (a key may be configured twice)
Pools == UNION {[1..n -> KeyNames] : n \in 0..MaxKeys}

InitKeyPool ==
  /\ now = 0
  /\ NoBreaker /\ NoCache /\ NoInfer /\ NoRetry /\ NoStream
  /\ \E ks \in Pools : keys = NewKeyPool(ks)
  /\ current = 0
  /\ kpRet = NoReturn

NextKeyPool ==
  \/ KPNext /\ UNCHANGED notKeyPool
  \/ KPMarkRateLimited /\ UNCHANGED notKeyPool
  \/ KPUpdateRemaining /\ UNCHANGED notKeyPool
  \/ KPTick /\ UNCHANGED notKeyPool

SpecKeyPool == InitKeyPool /\ [][NextKeyPool]_vars

----------------------------------------------------------------------------
(* Claims about the key pool, checked under SpecKeyPool                     *)

\* C9: in every reachable state of a key pool, every entry with
\* Exhausted = true has Remaining = 0.
C9_ExhaustedImpliesZero ==
  \A i \in 1..Len(keys) : keys[i].Exhausted => keys[i].Remaining = 0

\* C10: in every reachable state of a key pool, every entry with
\* Remaining = 0 has Exhausted = true.
C10_ZeroImpliesExhausted ==
  \A i \in 1..Len(keys) : keys[i].Remaining = 0 => keys[i].Exhausted

\* C10 witness: one entry was brought to Remaining = 0, and another entry
\* that had been exhausted has been reset by Next (it is not exhausted, its
\* ResetAt is no longer the zero time) and returned.
C10_Witness ==
  /\ Len(keys) = 2
  /\ keys[1].Remaining = 0 /\ keys[1].Exhausted
  /\ ~keys[2].Exhausted /\ keys[2].ResetAt # ZeroTime
  /\ keys[2].Remaining = -1
  /\ kpRet.err = "nil" /\ kpRet.key = keys[2].Key

\* A step of Next: it leaves a return value and the clock alone.
NextStep == now' = now /\ kpRet'.err # "none"

\* C11: an exhausted entry reached by the walk of Next (the entry under the
\* cursor always is) is skipped if and only if now < ResetAt; when
\* now >= ResetAt, now = ResetAt included, the walk clears Exhausted, sets
\* Remaining to -1 and returns the entry in that same call.
C11_ResetAtOrAfter ==
  [][(NextStep /\ Len(keys) > 0 /\ keys[current + 1].Exhausted)
       => IF now < keys[current + 1].ResetAt
            THEN keys'[current + 1] = keys[current + 1]
            ELSE /\ ~keys'[current + 1].Exhausted
                 /\ keys'[current + 1].Remaining = -1
                 /\ kpRet'.err = "nil"
                 /\ kpRet'.key = keys[current + 1].Key
                 /\ current' = (current + 1) % Len(keys)]_vars

\* An entry Next can return at clock reading t: it is not exhausted once the
\* walk has reset it if its cooldown has passed.
Selectable(e, t) == ~e.Exhausted \/ After(t, e.ResetAt)

\* The offsets from the cursor, in cyclic order, of the selectable entries
SelectableOffsets ==
  {k \in 0..(Len(keys) - 1) :
     Selectable(keys[((current + k) % Len(keys)) + 1], now)}

\* C12: when at least one entry of a pool of N entries is selectable, Next
\* returns the first selectable entry in cyclic order from the cursor and
\* sets the cursor to (index of that entry + 1) mod N; so when no entry is
\* exhausted it returns the entry under the cursor and moves the cursor one
\* position on, and N consecutive calls return each entry once in pool
\* order.
C12_FirstSelectableInOrder ==
  [][(NextStep /\ Len(keys) > 0 /\ SelectableOffsets # {})
       => LET k == CHOOSE j \in SelectableOffsets :
                     \A m \in SelectableOffsets : j <= m
              idx == (current + k) % Len(keys)
          IN /\ kpRet'.err = "nil"
             /\ kpRet'.key = keys[idx + 1].Key
             /\ current' = (idx + 1) % Len(keys)
             /\ ~keys'[idx + 1].Exhausted
             /\ (\A i \in 1..Len(keys) : ~keys[i].Exhausted)
                  => /\ idx = current
                     /\ keys' = keys]_vars

\* C12 witness: in a pool of two different keys the walk has passed the
\* exhausted first entry, returned the second and wrapped the cursor to 0.
C12_Witness ==
  /\ Len(keys) = 2
  /\ keys[1].Key # keys[2].Key
  /\ keys[1].Exhausted /\ ~keys[2].Exhausted
  /\ kpRet.err = "nil" /\ kpRet.key = keys[2].Key
  /\ current = 0

\* C37: when Next finds every entry exhausted with its reset time not yet
\* passed, it returns an error naming the earliest reset_at across the pool
\* and leaves the cursor and every entry's exhausted, remaining and reset_at
\* fields unchanged.
C37_ExhaustedPoolUntouched ==
  [][(/\ NextStep /\ Len(keys) > 0
      /\ \A i \in 1..Len(keys) :
           keys[i].Exhausted /\ ~After(now, keys[i].ResetAt))
       => /\ kpRet'.err = "all keys exhausted"
          /\ kpRet'.key = ""
          /\ \E i \in 1..Len(keys) : kpRet'.earliest = keys[i].ResetAt
          /\ \A i \in 1..Len(keys) : kpRet'.earliest <= keys[i].ResetAt
          /\ current' = current
          /\ keys' = keys]_vars

\* C37 witness: Next has failed on a pool of two exhausted keys, the cursor
\* on the second, and named the reset time of the second entry, the earlier
\* one
C37_Witness ==
  /\ kpRet.err = "all keys exhausted"
  /\ Len(keys) = 2 /\ current = 1
  /\ keys[1].Key # keys[2].Key
  /\ keys[2].ResetAt < keys[1].ResetAt
  /\ kpRet.earliest = keys[2].ResetAt
  /\ keys[1].Remaining = 0 /\ keys[2].Remaining = 0

----------------------------------------------------------------------------
(* SemanticCache.Store tasks (detached goroutines) and Lookup calls over    *)
(* one KV store and one vector index.  Each call of the embedder, the KV    *)
(* store or the vector index is one step and may fail.  Tasks of a kind are *)
(* identical, so they are numbered in the order in which they start.        *)

StoreIds == 1..NumStores
LookupIds == 1..NumLookups

StoreIdle ==
  [pc |-> "idle", prompt |-> "", resp |-> NoResponse, vector |-> 0,
   fault |-> "none"]
LookupIdle ==
  [pc |-> "idle", prompt |-> "", vector |-> 0, ID |-> "", fault |-> "none",
   result |-> Miss, err |-> "none", after |-> {}]

\* go h.semanticCache.Store(context.Background(), prompt, resp)
StoreStart(s) ==
  /\ store[s].pc = "idle"
  /\ IF s = 1 THEN TRUE ELSE store[s - 1].pc # "idle"
  /\ \E p \in Prompts, r \in Responses :
       store' = [store EXCEPT ![s] = [@ EXCEPT !.pc = "embed", !.prompt = p,
                                               !.resp = r]]
  /\ UNCHANGED <<embedding, redis, qdrant, nextUUID, lookup>>

\* Store step 1: embed; on error log and return
StoreEmbed(s) ==
  /\ store[s].pc = "embed"
  /\ \E ok \in BOOLEAN :
       store' = [store EXCEPT ![s] =
                   IF ok THEN [@ EXCEPT !.pc = "set",
                                        !.vector = embedding[store[s].prompt]]
                         ELSE [@ EXCEPT !.pc = "returned",
                                        !.fault = "embed"]]
  /\ UNCHANGED <<embedding, redis, qdrant, nextUUID, lookup>>

\* Store steps 2-3: the key from the prompt, the response into Redis; on
\* error log and return
StoreSet(s) ==
  /\ store[s].pc = "set"
  /\ \E ok \in BOOLEAN :
       IF ok
         THEN /\ redis' = RedisSet(redis, cacheKeyFromPrompt(store[s].prompt),
                                   store[s].resp)
              /\ store' = [store EXCEPT ![s].pc = "upsert"]
         ELSE /\ redis' = redis
              /\ store' = [store EXCEPT ![s].pc = "returned",
                                        ![s].fault = "set"]
  /\ UNCHANGED <<embedding, qdrant, nextUUID, lookup>>

\* Store step 4: upsert the vector under a fresh uuid; an error is logged
StoreUpsert(s) ==
  /\ store[s].pc = "upsert"
  /\ nextUUID' = nextUUID + 1
  /\ \E ok \in BOOLEAN :
       IF ok
         THEN /\ qdrant' = Upsert(qdrant, NewUUID(nextUUID + 1),
                                  cacheKeyFromPrompt(store[s].prompt),
                                  store[s].vector)
              /\ store' = [store EXCEPT ![s].pc = "returned"]
         ELSE /\ qdrant' = qdrant
              /\ store' = [store EXCEPT ![s].pc = "returned",
                                        ![s].fault = "upsert"]
  /\ UNCHANGED <<embedding, redis, lookup>>

\* Lookup is called; `after` remembers the Store tasks that had completed
\* without a fault by then.
LookupStart(l) ==
  /\ lookup[l].pc = "idle"
  /\ IF l = 1 THEN TRUE ELSE lookup[l - 1].pc # "idle"
  /\ \E p \in Prompts :
       lookup' = [lookup EXCEPT ![l] =
                    [@ EXCEPT !.pc = "embed", !.prompt = p,
                              !.after = {s \in StoreIds :
                                           /\ store[s].pc = "returned"
                                           /\ store[s].fault = "none"}]]
  /\ UNCHANGED <<embedding, redis, qdrant, nextUUID, store>>

\* Lookup step 1: embed; an error is a miss
LookupEmbed(l) ==
  /\ lookup[l].pc = "embed"
  /\ \E ok \in BOOLEAN :
       lookup' = [lookup EXCEPT ![l] =
                    IF ok THEN [@ EXCEPT !.pc = "search",
                                         !.vector =
                                           embedding[lookup[l].prompt]]
                          ELSE [@ EXCEPT !.pc = "returned",
                                         !.fault = "embed",
                                         !.result = Miss, !.err = "nil"]]
  /\ UNCHANGED <<embedding, redis, qdrant, nextUUID, store>>

\* Lookup step 2: search; an error or no neighbour is a miss
LookupSearch(l) ==
  /\ lookup[l].pc = "search"
  /\ \/ lookup' = [lookup EXCEPT ![l].pc = "returned",
                                 ![l].fault = "search",
                                 ![l].result = Miss, ![l].err = "nil"]
     \/ \E res \in Search(qdrant, lookup[l].vector, DefaultThreshold) :
          lookup' = [lookup EXCEPT ![l] =
                       IF res.Found THEN [@ EXCEPT !.pc = "get",
                                                   !.ID = res.ID]
                                    ELSE [@ EXCEPT !.pc = "returned",
                                                   !.result = Miss,
                                                   !.err = "nil"]]
  /\ UNCHANGED <<embedding, redis, qdrant, nextUUID, store>>

\* A variant of step 3 that returns the error of Get to the caller.
LookupGet_FaultReturned(l) ==
  /\ lookup[l].pc = "get"
  /\ \/ lookup' = [lookup EXCEPT ![l].pc = "returned",
                                 ![l].fault = "get",
                                 ![l].result = Miss, ![l].err = "get"]
     \/ LET cacheKey == lookup[l].ID
            got == RedisGet(redis, cacheKey)
        IN lookup' = [lookup EXCEPT ![l].pc = "returned",
                                    ![l].err = "nil",
                                    ![l].result =
                                      IF got.found
                                        THEN [Hit |-> TRUE,
                                              Response |-> got.resp]
                                        ELSE Miss]
  /\ UNCHANGED <<embedding, redis, qdrant, nextUUID, store>>

\* Lookup step 3: cacheKey := result.ID; Get from Redis; an error or an
\* absent key is a miss
LookupGet(l) ==
  /\ lookup[l].pc = "get"
  /\ \/ lookup' = [lookup EXCEPT ![l].pc = "returned",
                                 ![l].fault = "get",
                                 ![l].result = Miss, ![l].err = "nil"]
     \/ LET cacheKey == lookup[l].ID
            got == RedisGet(redis, cacheKey)
        IN lookup' = [lookup EXCEPT ![l].pc = "returned",
                                    ![l].err = "nil",
                                    ![l].result =
                                      IF got.found
                                        THEN [Hit |-> TRUE,
                                              Response |-> got.resp]
                                        ELSE Miss]
  /\ UNCHANGED <<embedding, redis, qdrant, nextUUID, store>>

\* The TTL of a KV entry elapses
RedisExpire ==
  /\ \E k \in DOMAIN redis :
       redis' = [j \in DOMAIN redis \ {k} |-> redis[j]]
  /\ UNCHANGED <<embedding, qdrant, nextUUID, store, lookup>>

\* The embedder is deterministic: one vector per prompt, the same in every
\* call.  "p1" embeds to 1; "p2" to the same vector, a neighbour or a
\* distant one.
Embedders == {[p \in Prompts |-> IF p = "p1" THEN 1 ELSE v] : v \in Vectors}

InitCache ==
  /\ now = 0
  /\ NoBreaker /\ NoKeyPool /\ NoInfer /\ NoRetry /\ NoStream
  /\ embedding \in Embedders
  /\ redis = <<>>
  /\ qdrant = {}
  /\ nextUUID = 0
  /\ store = [s \in StoreIds |-> StoreIdle]
  /\ lookup = [l \in LookupIds |-> LookupIdle]

NextCache ==
  \/ \E s \in StoreIds : StoreStart(s) /\ UNCHANGED notCache
  \/ \E s \in StoreIds : StoreEmbed(s) /\ UNCHANGED notCache
  \/ \E s \in StoreIds : StoreSet(s) /\ UNCHANGED notCache
  \/ \E s \in StoreIds : StoreUpsert(s) /\ UNCHANGED notCache
  \/ \E l \in LookupIds : LookupStart(l) /\ UNCHANGED notCache
  \/ \E l \in LookupIds : LookupEmbed(l) /\ UNCHANGED notCache
  \/ \E l \in LookupIds : LookupSearch(l) /\ UNCHANGED notCache
  \/ \E l \in LookupIds : LookupGet(l) /\ UNCHANGED notCache
  \/ RedisExpire /\ UNCHANGED notCache

SpecCache == InitCache /\ [][NextCache]_vars

----------------------------------------------------------------------------
(* Handler.Infer (pkg/proxy/handler.go) over one provider: its key pool,    *)
(* its breaker, the metrics registry, and the semantic cache if the handler *)
(* has one (step 1 and step 6 are skipped if semanticCache == nil).  A      *)
(* request is a sequence of steps, each of which touches one shared         *)
(* object; requests are identical, so they are numbered in the order in     *)
(* which they enter.                                                        *)

\* float64(cb.State()): the iota values of CircuitState
StateValue(s) ==
  CASE s = StateClosed -> 0
    [] s = StateOpen -> 1
    [] s = StateHalfOpen -> 2

\* The registry before any request: counters at 0, no gauge sample yet
NewMetrics ==
  [activeRequests |-> 0,
   requestsTotal |-> [success |-> 0, error |-> 0, cache_hit |-> 0],
   circuitBreakerState |-> -1,
   cacheLookupsTotal |-> 0, cacheHitsTotal |-> 0]

\* provider.Response and cache.CacheResult as the handler sees them
CachedResponses ==
  {[Text |-> <<"a">>, PromptTokens |-> 3, OutputTokens |-> 1],
   [Text |-> <<"b">>, PromptTokens |-> 0, OutputTokens |-> 0]}
CacheMiss ==
  [Hit |-> FALSE,
   Response |-> [Text |-> <<>>, PromptTokens |-> 0, OutputTokens |-> 0]]
LookupResults ==
  {CacheMiss} \cup {[Hit |-> TRUE, Response |-> r] : r \in CachedResponses}

\* CacheLookupsTotal.Inc() and CacheHitsTotal.Inc()
CountLookup_Skipped(m) == m
CountLookup(m) == [m EXCEPT !.cacheLookupsTotal = @ + 1]
CountHit(m) == [m EXCEPT !.cacheHitsTotal = @ + 1]

\* What p.Infer returns when it succeeds
ProviderResponse ==
  [Text |-> <<"a", "b">>, PromptTokens |-> 4, OutputTokens |-> 2]

\* pb.InferenceResponse (without its latency)
InferenceResponse_NeverHit(resp, cacheHit) ==
  [Text |-> resp.Text, PromptTokens |-> resp.PromptTokens,
   OutputTokens |-> resp.OutputTokens, CacheHit |-> FALSE]

InferenceResponse(resp, cacheHit) ==
  [Text |-> resp.Text, PromptTokens |-> resp.PromptTokens,
   OutputTokens |-> resp.OutputTokens, CacheHit |-> cacheHit]

\* A request before it enters: no key, no error, the provider not reached,
\* no lookup result, no response.  events is the history of the request
\* kept for the claims: "lookup" when Lookup has returned, "call" when
\* Retry has returned after invoking the provider ("call ok" if it returned
\* nil), "metrics" when the success counter has been incremented, "store"
\* when the Store task has been started.
NewRequest ==
  [pc |-> "start", apiKey |-> "", err |-> "none", reached |-> FALSE,
   cacheResult |-> CacheMiss,
   resp |-> InferenceResponse(CacheMiss.Response, FALSE), events |-> <<>>]

Called(events, res) ==
  IF res.calls = 0 THEN events
  ELSE Append(events, IF res.err = "nil" THEN "call ok" ELSE "call")

\* The handler's maps for the provider of the requests (is there a provider,
\* a key pool, a breaker) and its retry configuration.
HandlerConfigs ==
  [providers : {TRUE}, keyPools : {TRUE}, circuitBreakers : BOOLEAN,
   maxRetries : {MaxRetries}, semanticCache : {FALSE}]
    \cup [providers : BOOLEAN, keyPools : {FALSE}, circuitBreakers : {TRUE},
          maxRetries : {MaxRetries}, semanticCache : {FALSE}]

\* What the provider may return to the attempts of one Retry, and where the
\* request's context may be done
AnyOutcomes(maxRetries) == [1..(maxRetries + 1) -> ProviderOutcomes]
AnyCancel(maxRetries) == (0 - 1)..(2 * maxRetries)

\* The return of Infer: the deferred ActiveRequests.Dec() runs
Return_NoDec(m) == m
Return(m) == [m EXCEPT !.activeRequests = @ - 1]

\* Infer lines 56-58: the request is in flight.  probe records, for the
\* claims, the request that entered alone, more than the cooldown after the
\* last failure of a breaker whose stored state is Open.
InferEnter(r) ==
  /\ req[r].pc = "start"
  /\ IF r = 1 THEN TRUE ELSE req[r - 1].pc # "start"
  /\ metrics' = [metrics EXCEPT !.activeRequests = @ + 1]
  /\ req' = [req EXCEPT ![r].pc = "entered"]
  /\ probe' = IF /\ handler.circuitBreakers
                 /\ cb.state = StateOpen
                 /\ Since(cb.lastFailure, now) > cb.cooldown
                 /\ \A q \in DOMAIN req \ {r} :
                      req[q].pc \in {"start", "done"}
               THEN r ELSE probe
  /\ UNCHANGED <<now, cb, hist, keys, current, handler, started>>

\* Infer line 70: the lookup is counted before it is made
InferCount(r) ==
  /\ req[r].pc = "entered"
  /\ handler.semanticCache
  /\ metrics' = CountLookup(metrics)
  /\ req' = [req EXCEPT ![r].pc = "looking"]
  /\ UNCHANGED <<now, cb, hist, keys, current, handler, probe, started>>

\* Infer line 71 and the first statement of RecordCacheLookup
InferLookup(r, results) ==
  /\ req[r].pc = "looking"
  /\ \E res \in results :
       req' = [req EXCEPT ![r].pc = "recording", ![r].cacheResult = res,
                          ![r].events = Append(@, "lookup")]
  /\ metrics' = CountLookup(metrics)
  /\ UNCHANGED <<now, cb, hist, keys, current, handler, probe, started>>

\* Infer lines 76-92 and the rest of RecordCacheLookup: a hit is counted
\* and answered from the cache
InferAnswer(r) ==
  /\ req[r].pc = "recording"
  /\ IF req[r].cacheResult.Hit
       THEN /\ metrics' =
                 Return([CountHit(metrics) EXCEPT
                           !.requestsTotal.cache_hit = @ + 1])
            /\ req' = [req EXCEPT
                 ![r].pc = "done", ![r].err = "nil",
                 ![r].resp =
                   InferenceResponse(req[r].cacheResult.Response, TRUE)]
       ELSE /\ metrics' = metrics
            /\ req' = [req EXCEPT ![r].pc = "missed"]
  /\ UNCHANGED <<now, cb, hist, keys, current, handler, probe, started>>

\* A variant of the key step that counts a breaker failure when the
\* request fails for want of a provider, a pool or a key.
InferDrawKey_CountsFailure(r) ==
  /\ \/ req[r].pc = "entered" /\ ~handler.semanticCache
     \/ req[r].pc = "missed"
  /\ IF ~handler.providers \/ ~handler.keyPools
       THEN /\ req' = [req EXCEPT ![r].pc = "done", ![r].err = "config"]
            /\ metrics' = Return(metrics)
            /\ cb' = recordFailure(cb, now)
            /\ UNCHANGED <<keys, current>>
       ELSE LET res == KeyPoolNext(keys, current, now)
            IN /\ keys' = res.keys
               /\ current' = res.current
               /\ IF res.ret.err # "nil"
                    THEN /\ req' = [req EXCEPT ![r].pc = "done",
                                               ![r].err = "keypool"]
                         /\ metrics' = Return(metrics)
                         /\ cb' = recordFailure(cb, now)
                    ELSE /\ req' = [req EXCEPT ![r].pc = "keyed",
                                               ![r].apiKey = res.ret.key]
                         /\ UNCHANGED <<metrics, cb>>
  /\ UNCHANGED <<now, hist, handler, probe, started>>

\* Infer lines 97-113: the provider and the key pool are looked up and a key
\* is drawn; each failure returns at once, before any metric is recorded.
InferDrawKey(r) ==
  /\ \/ req[r].pc = "entered" /\ ~handler.semanticCache
     \/ req[r].pc = "missed"
  /\ IF ~handler.providers \/ ~handler.keyPools
       THEN /\ req' = [req EXCEPT ![r].pc = "done", ![r].err = "config"]
            /\ metrics' = Return(metrics)
            /\ UNCHANGED <<keys, current>>
       ELSE LET res == KeyPoolNext(keys, current, now)
            IN /\ keys' = res.keys
               /\ current' = res.current
               /\ IF res.ret.err # "nil"
                    THEN /\ req' = [req EXCEPT ![r].pc = "done",
                                               ![r].err = "keypool"]
                         /\ metrics' = Return(metrics)
                    ELSE /\ req' = [req EXCEPT ![r].pc = "keyed",
                                               ![r].apiKey = res.ret.key]
                         /\ UNCHANGED metrics
  /\ UNCHANGED <<now, cb, hist, handler, probe, started>>

\* Infer line 138, Execute line 64: allowRequest() under the breaker's lock
InferAllow(r) ==
  /\ req[r].pc = "keyed"
  /\ handler.circuitBreakers
  /\ LET res == allowRequest(cb, now)
     IN /\ cb' = res.cb
        /\ req' = [req EXCEPT
             ![r].pc = IF res.ok THEN "admitted" ELSE "rejecting"]
  /\ UNCHANGED <<now, hist, keys, current, handler, metrics, probe, started>>

\* Execute lines 65-68: the rejection is counted; ErrCircuitOpen is returned
InferReject(r) ==
  /\ req[r].pc = "rejecting"
  /\ cb' = countRejected(cb)
  /\ req' = [req EXCEPT ![r].pc = "executed", ![r].err = "open"]
  /\ UNCHANGED <<now, hist, keys, current, handler, metrics, probe, started>>

\* A variant of Execute that records one failure for every failed attempt
\* of the thunk's Retry.
RECURSIVE recordFailures(_, _, _)
recordFailures(b, t, n) ==
  IF n <= 0 THEN b ELSE recordFailures(recordFailure(b, t), t, n - 1)

InferRecord_PerAttempt(r, outcomes, cancels) ==
  /\ req[r].pc = "admitted"
  /\ \E res \in RetryResults(handler.maxRetries, outcomes, cancels) :
          /\ cb' = IF res.err # "nil" THEN recordFailures(cb, now, res.calls)
                                      ELSE recordSuccess(cb)
          /\ req' = [req EXCEPT ![r].pc = "executed", ![r].err = res.err,
                                ![r].reached = res.calls > 0,
                                ![r].events = Called(@, res)]
  /\ UNCHANGED <<now, hist, keys, current, handler, metrics, probe, started>>

\* Execute lines 71-82: the thunk, Retry around p.Infer, has run unlocked and
\* its outcome is recorded under the lock.
InferRecord(r, outcomes, cancels) ==
  /\ req[r].pc = "admitted"
  /\ \E res \in RetryResults(handler.maxRetries, outcomes, cancels) :
          /\ cb' = IF res.err # "nil" THEN recordFailure(cb, now)
                                      ELSE recordSuccess(cb)
          /\ req' = [req EXCEPT ![r].pc = "executed", ![r].err = res.err,
                                ![r].reached = res.calls > 0,
                                ![r].events = Called(@, res)]
  /\ UNCHANGED <<now, hist, keys, current, handler, metrics, probe, started>>

\* Infer lines 129-136: no breaker for the provider, Retry runs directly
InferDirect(r, outcomes, cancels) ==
  /\ req[r].pc = "keyed"
  /\ ~handler.circuitBreakers
  /\ \E res \in RetryResults(handler.maxRetries, outcomes, cancels) :
          req' = [req EXCEPT ![r].pc = "observed", ![r].err = res.err,
                             ![r].reached = res.calls > 0,
                             ![r].events = Called(@, res)]
  /\ UNCHANGED <<now, cb, hist, keys, current, handler, metrics, probe,
               started>>

\* Infer line 147: the gauge is set to what cb.State() reports now
InferObserve(r) ==
  /\ req[r].pc = "executed"
  /\ metrics' = [metrics EXCEPT
       !.circuitBreakerState = StateValue(State(cb, now))]
  /\ req' = [req EXCEPT ![r].pc = "observed"]
  /\ UNCHANGED <<now, cb, hist, keys, current, handler, probe, started>>

\* A variant of the error return that benches the key under the cursor.
InferFinish_MarksCursor(r) ==
  /\ req[r].pc = "observed"
  /\ IF req[r].err # "nil"
       THEN /\ keys' = IF IsServerError(req[r].err)
                         THEN MarkRateLimited(keys, keys[current + 1].Key,
                                              now + RateLimitWindow)
                         ELSE keys
            /\ metrics' = Return([metrics EXCEPT !.requestsTotal.error = @ + 1])
            /\ started' = started
            /\ req' = [req EXCEPT ![r].pc = "done", ![r].apiKey = ""]
       ELSE /\ keys' = keys
            /\ metrics' = [metrics EXCEPT !.requestsTotal.success = @ + 1]
            /\ started' = started
            /\ req' = [req EXCEPT ![r].pc = "counted",
                                  ![r].events = Append(@, "metrics")]
  /\ UNCHANGED <<now, cb, hist, current, handler, probe>>

\* Infer lines 150-166: on an error that IsServerError accepts the key is
\* benched for 60 seconds, and the request is counted as an error and
\* returns; otherwise it is counted as a success.
InferFinish(r) ==
  /\ req[r].pc = "observed"
  /\ IF req[r].err # "nil"
       THEN /\ keys' = IF IsServerError(req[r].err)
                         THEN MarkRateLimited(keys, req[r].apiKey,
                                              now + RateLimitWindow)
                         ELSE keys
            /\ metrics' = Return([metrics EXCEPT !.requestsTotal.error = @ + 1])
            /\ started' = started
            /\ req' = [req EXCEPT ![r].pc = "done", ![r].apiKey = ""]
       ELSE /\ keys' = keys
            /\ metrics' = [metrics EXCEPT !.requestsTotal.success = @ + 1]
            /\ started' = started
            /\ req' = [req EXCEPT ![r].pc = "counted",
                                  ![r].events = Append(@, "metrics")]
  /\ UNCHANGED <<now, cb, hist, current, handler, probe>>

\* A variant of step 6 that starts the Store task whatever the request
\* has done.
InferStore_Always(r) ==
  /\ req[r].pc \in {"counted", "observed"}
  /\ started' = IF handler.semanticCache
                  THEN Append(started, ProviderResponse)
                  ELSE started
  /\ metrics' = Return(metrics)
  /\ req' = [req EXCEPT
       ![r].pc = "done", ![r].apiKey = "",
       ![r].resp = InferenceResponse(ProviderResponse, FALSE),
       ![r].events = IF handler.semanticCache THEN Append(@, "store") ELSE @]
  /\ UNCHANGED <<now, cb, hist, keys, current, handler, probe>>

\* Infer lines 169-186: the response of the provider is handed to a
\* detached Store, if the handler has a cache, and returned
InferStore(r) ==
  /\ req[r].pc = "counted"
  /\ started' = IF handler.semanticCache
                  THEN Append(started, ProviderResponse)
                  ELSE started
  /\ metrics' = Return(metrics)
  /\ req' = [req EXCEPT
       ![r].pc = "done", ![r].apiKey = "",
       ![r].resp = InferenceResponse(ProviderResponse, FALSE),
       ![r].events = IF handler.semanticCache THEN Append(@, "store") ELSE @]
  /\ UNCHANGED <<now, cb, hist, keys, current, handler, probe>>

\* The clock advances by TickStep seconds.
InferTick ==
  /\ now < MaxInferTime
  /\ now' = now + TickStep
  /\ UNCHANGED <<cb, hist, keys, current, handler, metrics, req, probe, started>>

\* The pools of the handler's provider
InferPools == {<<"k1">>, <<"k1", "k2">>}

\* A handler configured like main does (cooldown left at its default), with
\* any threshold up to MaxThreshold, serving NumRequests unary requests
InitInfer ==
  /\ now = 0
  /\ NoCache /\ NoRetry /\ NoStream
  /\ pc = <<>> /\ err = <<>> /\ thunkCalls = <<>> /\ admittedIn = <<>>
  /\ hist = HistInit
  /\ kpRet = NoReturn
  /\ handler \in HandlerConfigs
  /\ IF handler.providers /\ handler.keyPools /\ handler.circuitBreakers
       THEN \E f \in 1..MaxThreshold : cb = NewCircuitBreaker(f, 0)
       ELSE cb = NewCircuitBreaker(0, 0)
  /\ IF handler.keyPools
       THEN \E ks \in InferPools : keys = NewKeyPool(ks)
       ELSE keys = <<>>
  /\ current = 0
  /\ metrics = NewMetrics
  /\ req = [r \in 1..NumRequests |-> NewRequest]
  /\ probe = 0

NextInfer ==
  \/ \E r \in DOMAIN req : InferEnter(r) /\ UNCHANGED notInfer
  \/ \E r \in DOMAIN req : InferDrawKey(r) /\ UNCHANGED notInfer
  \/ \E r \in DOMAIN req : InferAllow(r) /\ UNCHANGED notInfer
  \/ \E r \in DOMAIN req : InferReject(r) /\ UNCHANGED notInfer
  \/ \E r \in DOMAIN req :
       /\ InferRecord(r, AnyOutcomes(handler.maxRetries),
                      AnyCancel(handler.maxRetries))
       /\ UNCHANGED notInfer
  \/ \E r \in DOMAIN req :
       /\ InferDirect(r, AnyOutcomes(handler.maxRetries),
                      AnyCancel(handler.maxRetries))
       /\ UNCHANGED notInfer
  \/ \E r \in DOMAIN req : InferObserve(r) /\ UNCHANGED notInfer
  \/ \E r \in DOMAIN req : InferFinish(r) /\ UNCHANGED notInfer
  \/ \E r \in DOMAIN req : InferStore(r) /\ UNCHANGED notInfer
  \/ InferTick /\ UNCHANGED notInfer

SpecInfer == InitInfer /\ [][NextInfer]_vars

----------------------------------------------------------------------------
(* Scenario: failure threshold 3, a provider that always answers with       *)
(* status 500, five unary requests through the same breaker, none of them   *)
(* cancelled.                                                               *)

\* The provider fails every attempt with an error that carries "500".
AlwaysFails(maxRetries) == {[i \in 1..(maxRetries + 1) |-> "e5xx"]}

\* No request's context is done before its Retry has returned.
NeverCancelled == {0 - 1}

\* The requests are issued together: the clock advances at most once while
\* they are served.
TripTick == now < TickStep /\ InferTick

InitTrip ==
  /\ now = 0
  /\ NoCache /\ NoRetry /\ NoStream
  /\ pc = <<>> /\ err = <<>> /\ thunkCalls = <<>> /\ admittedIn = <<>>
  /\ hist = HistInit
  /\ kpRet = NoReturn
  /\ handler = [providers |-> TRUE, keyPools |-> TRUE,
                circuitBreakers |-> TRUE, maxRetries |-> MaxRetries,
                semanticCache |-> FALSE]
  /\ cb = NewCircuitBreaker(3, 0)
  /\ \E ks \in InferPools : keys = NewKeyPool(ks)
  /\ current = 0
  /\ metrics = NewMetrics
  /\ req = [r \in 1..5 |-> NewRequest]
  /\ probe = 0

NextTrip ==
  \/ \E r \in DOMAIN req : InferEnter(r) /\ UNCHANGED notInfer
  \/ \E r \in DOMAIN req : InferDrawKey(r) /\ UNCHANGED notInfer
  \/ \E r \in DOMAIN req : InferAllow(r) /\ UNCHANGED notInfer
  \/ \E r \in DOMAIN req : InferReject(r) /\ UNCHANGED notInfer
  \/ \E r \in DOMAIN req :
       /\ InferRecord(r, AlwaysFails(handler.maxRetries), NeverCancelled)
       /\ UNCHANGED notInfer
  \/ \E r \in DOMAIN req : InferObserve(r) /\ UNCHANGED notInfer
  \/ \E r \in DOMAIN req : InferFinish(r) /\ UNCHANGED notInfer
  \/ TripTick /\ UNCHANGED notInfer

SpecTrip == InitTrip /\ [][NextTrip]_vars

----------------------------------------------------------------------------
(* Scenario: three unary requests over a pool of two keys, with a breaker   *)
(* of threshold 1 or with none; the provider may answer anything.           *)

InitBench ==
  /\ now = 0
  /\ NoCache /\ NoRetry /\ NoStream
  /\ pc = <<>> /\ err = <<>> /\ thunkCalls = <<>> /\ admittedIn = <<>>
  /\ hist = HistInit
  /\ kpRet = NoReturn
  /\ handler \in [providers : {TRUE}, keyPools : {TRUE},
                  circuitBreakers : BOOLEAN, maxRetries : {MaxRetries},
                  semanticCache : {FALSE}]
  /\ cb = NewCircuitBreaker(1, 0)
  /\ keys = NewKeyPool(<<"k1", "k2">>)
  /\ current = 0
  /\ metrics = NewMetrics
  /\ req = [r \in 1..3 |-> NewRequest]
  /\ probe = 0

SpecBench == InitBench /\ [][NextInfer]_vars

----------------------------------------------------------------------------
(* One execution of Retry (pkg/resilience/retry.go), step by step: the loop *)
(* head with its context check, the call of the thunk, the backoff sleep.   *)
(* Durations are counted in half milliseconds.                              *)

\* time.Millisecond, in half milliseconds
Millisecond == 2

RECURSIVE Pow2(_)
Pow2(n) == IF n <= 0 THEN 1 ELSE 2 * Pow2(n - 1)

\* A variant of calculateDelay that does not cap the exponential delay.
calculateDelay_NoCap(attempt, baseDelay, maxDelay, j) ==
  LET expDelay == baseDelay * Pow2(attempt)
      jitteredDelay == (j * expDelay) \div JitterSteps
  IN IF jitteredDelay < Millisecond THEN Millisecond ELSE jitteredDelay

\* calculateDelay, with rand.Float64() = j / JitterSteps (0 <= j <
\* JitterSteps) and the conversion to time.Duration truncating.
calculateDelay(attempt, baseDelay, maxDelay, j) ==
  LET expDelay0 == baseDelay * Pow2(attempt)
      expDelay == IF expDelay0 > maxDelay THEN maxDelay ELSE expDelay0
      jitteredDelay == (j * expDelay) \div JitterSteps
  IN IF jitteredDelay < Millisecond THEN Millisecond ELSE jitteredDelay

\* A variant of the loop body that goes on after a success as after a
\* retryable failure.
AfterCall_IgnoresSuccess(r, out, j) ==
  LET r1 == [r EXCEPT !.lastErr = out, !.outs = Append(@, out)]
  IN IF r.attempt = r.maxRetries
       THEN [r1 EXCEPT !.pc = "done",
                       !.ret = IF out = "ok" THEN "nil" ELSE out]
     ELSE IF out # "ok" /\ ~IsServerError(out)
       THEN [r1 EXCEPT !.pc = "done", !.ret = out]
     ELSE [r1 EXCEPT !.pc = "sleep",
                     !.delay = calculateDelay(r.attempt, r.baseDelay,
                                              r.maxDelay, j)]

\* A variant of the thunk's return that backs off and retries after every
\* error, retryable or not.
AfterCall_RetriesAll(r, out, j) ==
  LET r1 == [r EXCEPT !.lastErr = out, !.outs = Append(@, out)]
  IN IF out = "ok" THEN [r1 EXCEPT !.pc = "done", !.ret = "nil"]
     ELSE IF r.attempt = r.maxRetries
       THEN [r1 EXCEPT !.pc = "done", !.ret = out]
     ELSE [r1 EXCEPT !.pc = "sleep",
                     !.delay = calculateDelay(r.attempt, r.baseDelay,
                                              r.maxDelay, j)]

\* Retry lines 45-61: the thunk has returned `out`; outs is the history of
\* what the thunk returned in this execution.
AfterCall(r, out, j) ==
  LET r1 == [r EXCEPT !.lastErr = out, !.outs = Append(@, out)]
  IN IF out = "ok" THEN [r1 EXCEPT !.pc = "done", !.ret = "nil"]
     ELSE IF r.attempt = r.maxRetries
       THEN [r1 EXCEPT !.pc = "done", !.ret = out]
     ELSE IF ~IsServerError(out)
       THEN [r1 EXCEPT !.pc = "done", !.ret = out]
     ELSE [r1 EXCEPT !.pc = "sleep",
                     !.delay = calculateDelay(r.attempt, r.baseDelay,
                                              r.maxDelay, j)]

\* A variant of the head of the loop that does not look at the context
RetryCheck_NoCtx ==
  /\ rt.pc = "check"
  /\ rt' = IF rt.attempt > rt.maxRetries
             THEN [rt EXCEPT !.pc = "done", !.ret = rt.lastErr]
           ELSE [rt EXCEPT !.pc = "call"]

\* Retry lines 37-43: the loop condition, then the context check
RetryCheck ==
  /\ rt.pc = "check"
  /\ rt' = IF rt.attempt > rt.maxRetries
             THEN [rt EXCEPT !.pc = "done", !.ret = rt.lastErr]
           ELSE IF rt.cancelled
             THEN [rt EXCEPT !.pc = "done", !.ret = "ctx"]
           ELSE [rt EXCEPT !.pc = "call"]

\* Retry lines 45-61: fn(ctx) runs and returns
RetryCall ==
  /\ rt.pc = "call"
  /\ \E out \in ProviderOutcomes, j \in 0..(JitterSteps - 1) :
       rt' = AfterCall(rt, out, j)

\* Retry lines 63-68: the select on ctx.Done() and the timer; when both are
\* ready either case may be taken.
RetrySleep ==
  /\ rt.pc = "sleep"
  /\ \/ /\ rt.cancelled
        /\ rt' = [rt EXCEPT !.pc = "done", !.ret = "ctx", !.delay = 0]
     \/ rt' = [rt EXCEPT !.pc = "check", !.attempt = @ + 1, !.delay = 0]

\* The caller's context is cancelled or its deadline passes.
RetryCancel ==
  /\ rt.pc # "done"
  /\ ~rt.cancelled
  /\ rt' = [rt EXCEPT !.cancelled = TRUE]

\* The configurations: up to MaxRetries + 1 retries, 0 < BaseDelay <= MaxDelay
InitRetry ==
  /\ now = 0
  /\ NoBreaker /\ NoKeyPool /\ NoCache /\ NoInfer /\ NoStream
  /\ \E m \in 0..(MaxRetries + 1), base \in 1..MaxDelay :
       \E max \in base..MaxDelay :
         rt = [maxRetries |-> m, baseDelay |-> base, maxDelay |-> max,
               attempt |-> 0, pc |-> "check", lastErr |-> "nil",
               ret |-> "none", delay |-> 0, cancelled |-> FALSE,
               outs |-> <<>>]

NextRetry ==
  \/ RetryCheck /\ UNCHANGED notRetry
  \/ RetryCall /\ UNCHANGED notRetry
  \/ RetrySleep /\ UNCHANGED notRetry
  \/ RetryCancel /\ UNCHANGED notRetry

SpecRetry == InitRetry /\ [][NextRetry]_vars

\* C13: in every execution of Retry with MaxRetries = M >= 0 the thunk is
\* invoked at most M + 1 times and never again after it has returned nil;
\* two retryable failures followed by a success end the execution with
\* exactly 3 invocations and a nil result.
C13_AtMostMaxRetriesPlusOne ==
  /\ Len(rt.outs) <= rt.maxRetries + 1
  /\ \A i \in 1..(Len(rt.outs) - 1) : rt.outs[i] # "ok"
  /\ (Len(rt.outs) > 0 /\ rt.outs[Len(rt.outs)] = "ok")
       => rt.pc = "done" /\ rt.ret = "nil"
  /\ (Len(rt.outs) >= 3 /\ SubSeq(rt.outs, 1, 3) = <<"e5xx", "e5xx", "ok">>)
       => Len(rt.outs) = 3 /\ rt.ret = "nil"

\* C13 witness: with M >= 2, two retryable failures and a success: Retry
\* has returned nil after 3 invocations.
C13_Witness ==
  /\ rt.maxRetries >= 2
  /\ rt.outs = <<"e5xx", "e5xx", "ok">>
  /\ rt.pc = "done" /\ rt.ret = "nil"

\* C14, as stated: for BaseDelay > 0 and MaxDelay >= BaseDelay every backoff
\* sleep d satisfies 1 ms <= d <= MaxDelay.
C14_DelayWithinBounds ==
  rt.pc = "sleep" => Millisecond <= rt.delay /\ rt.delay <= rt.maxDelay

\* C14, amended: for BaseDelay > 0 and MaxDelay >= BaseDelay every backoff
\* sleep d is at least 1 ms; it is at most MaxDelay when MaxDelay >= 1 ms,
\* and exactly 1 ms when MaxDelay < 1 ms.
C14_DelayFloorThenCap ==
  rt.pc = "sleep"
    => /\ Millisecond <= rt.delay
       /\ rt.maxDelay >= Millisecond => rt.delay <= rt.maxDelay
       /\ rt.maxDelay < Millisecond => rt.delay = Millisecond

\* C14 witness: a sleep after the second failed attempt, above the floor and
\* above BaseDelay, within MaxDelay.
C14_Witness ==
  /\ rt.pc = "sleep"
  /\ rt.attempt >= 1
  /\ rt.delay > Millisecond
  /\ rt.delay > rt.baseDelay
  /\ rt.delay <= rt.maxDelay

\* C25: if an attempt of Retry with index below max_retries fails with a
\* non-retryable error, Retry returns that error at once: no backoff sleep
\* and no further invocation of the thunk.
C25_NonRetryableReturnsAtOnce ==
  [][/\ (/\ rt.pc = "call" /\ rt.attempt < rt.maxRetries
         /\ rt'.outs = Append(rt.outs, "e4xx"))
         => rt'.pc = "done" /\ rt'.ret = "e4xx" /\ rt'.delay = 0
     /\ rt.pc = "done" => rt'.pc = "done" /\ rt'.outs = rt.outs]_vars

\* C25 witness: with attempts left, the second attempt failed with a
\* non-retryable error and Retry has returned it
C25_Witness ==
  /\ rt.maxRetries >= 2
  /\ rt.outs = <<"e5xx", "e4xx">>
  /\ rt.pc = "done" /\ rt.ret = "e4xx"

\* C26: if the context is already done when it is checked before an
\* attempt, or becomes done during a backoff sleep, Retry returns a
\* cancellation error and the thunk is never invoked again: from the check
\* Retry returns the cancellation; from the sleep it returns it or goes to
\* the check of an attempt that is within the budget; nothing follows the
\* return.
C26_CancelledNeverCallsAgain ==
  [][/\ rt.pc = "check" /\ rt.cancelled /\ rt.attempt <= rt.maxRetries
          => rt'.pc = "done" /\ rt'.ret = "ctx" /\ rt'.outs = rt.outs
     /\ rt.pc = "sleep" /\ rt.cancelled
          => /\ rt'.outs = rt.outs
             /\ \/ rt'.pc = "done" /\ rt'.ret = "ctx"
                \/ /\ rt'.pc = "check" /\ rt'.cancelled
                   /\ rt'.attempt <= rt'.maxRetries
     /\ rt.pc = "done" => rt'.pc = "done" /\ rt'.outs = rt.outs]_vars

\* C26 witness: the context was done at the check before a retry that was
\* still within the budget; Retry has returned the cancellation
C26_Witness ==
  /\ rt.pc = "done" /\ rt.ret = "ctx" /\ rt.cancelled
  /\ rt.outs = <<"e5xx">>
  /\ rt.attempt = 1 /\ rt.maxRetries >= 1

----------------------------------------------------------------------------
(* Streaming (provider.InferStream of the OpenAI and Gemini providers, and  *)
(* Handler.InferStream).  A text is a sequence of characters, so that       *)
(* concatenation keeps the order of its parts.  The upstream HTTP body is   *)
(* an input: each read of the producer gets one of the events below, and    *)
(* the body ends after at most MaxLines lines.                              *)

\* make(chan StreamChunk, 16)
ChanCap == 16

Texts == {<<>>, <<"a">>, <<"b">>}

\* Token counts a usage block may carry (prompt, completion)
Usages == {<<3, 1>>, <<4, 0>>}

\* provider.StreamChunk; the fields a literal leaves out are zero
StreamChunk(text, done, e, promptTokens, outputTokens) ==
  [Text |-> text, Done |-> done, Err |-> e,
   PromptTokens |-> promptTokens, OutputTokens |-> outputTokens]

ErrChunk(e) == StreamChunk(<<>>, FALSE, e, 0, 0)
DoneChunk(promptTokens, outputTokens) ==
  StreamChunk(<<>>, TRUE, "nil", promptTokens, outputTokens)

\* What scanner.Scan() gives the OpenAI producer: a line that is not a data
\* line, a data line with a JSON delta (its text, its usage block, <<>> if
\* it has none), "data: [DONE]", a data line that is not JSON; at any time
\* the end of the body or a read error.
OpenAILines ==
  [kind : {"data"}, text : Texts, usage : Usages \cup {<<>>}]
    \cup [kind : {"other", "done", "bad"}, text : {<<>>}, usage : {<<>>}]

\* What decoder.Decode gives the Gemini producer: a response (the text of
\* its first candidate, "" if there is none; its usageMetadata, zero if
\* absent); at any time io.EOF or another error.
GeminiLines ==
  [kind : {"resp"}, text : Texts, usage : Usages \cup {<<0, 0>>}]

\* The events a producer may get from a body that holds at most n more
\* lines
Upstream(impl, n) ==
  IF impl = "openai"
    THEN (IF n > 0 THEN OpenAILines ELSE {})
           \cup [kind : {"eof", "scanErr"}, text : {<<>>}, usage : {<<>>}]
    ELSE (IF n > 0 THEN GeminiLines ELSE {})
           \cup [kind : {"eof", "decodeErr"}, text : {<<>>}, usage : {<<>>}]

\* A producer goroutine: where it is (none: not started, running: at the
\* head of its loop, sending: blocked in ch <-, closed: returned and the
\* deferred close(ch) has run), the chunks it still has to send before it
\* goes on (after = loop) or returns (after = return), its usage totals,
\* and the number of lines the upstream body may still hold.
NewProducer(impl, lines) ==
  [impl |-> impl, pc |-> "none", pending |-> <<>>, after |-> "loop",
   totalPromptTokens |-> 0, totalOutputTokens |-> 0, lines |-> lines]

Emit(p, chunks, after) ==
  [p EXCEPT !.pc = "sending", !.pending = chunks, !.after = after]

\* OpenAIProvider.InferStream, the goroutine: one turn of its loop up to
\* the next channel send, or its return
OpenAITurn(p, ev, ctxDone) ==
  CASE ev.kind = "eof" -> [p EXCEPT !.pc = "closed"]
    [] ev.kind = "scanErr" -> Emit(p, <<ErrChunk("scan")>>, "return")
    [] OTHER ->
         LET q == [p EXCEPT !.lines = @ - 1]
         IN CASE ctxDone -> Emit(q, <<ErrChunk("ctx")>>, "return")
              [] ~ctxDone /\ ev.kind = "other" -> q
              [] ~ctxDone /\ ev.kind = "done" ->
                   Emit(q, <<DoneChunk(q.totalPromptTokens,
                                       q.totalOutputTokens)>>, "return")
              [] ~ctxDone /\ ev.kind = "bad" ->
                   Emit(q, <<ErrChunk("decode")>>, "return")
              [] ~ctxDone /\ ev.kind = "data" ->
                   LET t == IF ev.usage # <<>>
                              THEN [q EXCEPT
                                      !.totalPromptTokens = ev.usage[1],
                                      !.totalOutputTokens = ev.usage[2]]
                              ELSE q
                   IN IF ev.text # <<>>
                        THEN Emit(t, <<StreamChunk(ev.text, FALSE, "nil", 0, 0)>>,
                                  "loop")
                        ELSE t

\* GeminiProvider.InferStream, the goroutine: the same
GeminiTurn(p, ev, ctxDone) ==
  CASE ctxDone -> Emit(p, <<ErrChunk("ctx")>>, "return")
    [] ~ctxDone /\ ev.kind = "eof" -> Emit(p, <<DoneChunk(0, 0)>>, "return")
    [] ~ctxDone /\ ev.kind = "decodeErr" ->
         Emit(p, <<ErrChunk("decode"), DoneChunk(0, 0)>>, "return")
    [] ~ctxDone /\ ev.kind = "resp" ->
         Emit([p EXCEPT !.lines = @ - 1],
              <<StreamChunk(ev.text, FALSE, "nil", ev.usage[1], ev.usage[2])>>,
              "loop")

Turn(p, ev, ctxDone) ==
  IF p.impl = "openai" THEN OpenAITurn(p, ev, ctxDone)
                       ELSE GeminiTurn(p, ev, ctxDone)

\* ch <- chunk, once the buffer has room; after the last pending chunk the
\* goroutine goes back to its loop or returns, and returning closes ch
Put(p) ==
  LET rest == Tail(p.pending)
  IN [p EXCEPT !.pending = rest,
               !.pc = IF rest # <<>> THEN "sending"
                      ELSE IF p.after = "return" THEN "closed"
                      ELSE "running"]

----------------------------------------------------------------------------
(* One InferStream request of the handler, from entry to return, with the   *)
(* producer goroutine that p.InferStream starts.  The result of the cache   *)
(* Lookup, the result of opening the upstream stream, the outcome of each   *)
(* downstream Send and the moment the request's context is done are inputs. *)

\* pb.StreamChunk, what stream.Send carries downstream
PbChunk(text, done, promptTokens, outputTokens) ==
  [Text |-> text, Done |-> done,
   PromptTokens |-> promptTokens, OutputTokens |-> outputTokens]

\* The request before it enters
NewStream(impl, lines) ==
  [pc |-> "start", apiKey |-> "", err |-> "none", cacheResult |-> CacheMiss,
   fullText |-> <<>>, promptTokens |-> 0, outputTokens |-> 0,
   got |-> <<>>, sent |-> <<>>, ctxDone |-> FALSE,
   prod |-> NewProducer(impl, lines), ch |-> <<>>]

\* The return of InferStream: the deferred cancel() ends the request's
\* context (the deferred ActiveRequests.Dec() is Return, on the metrics)
StreamReturn(s, e) == [s EXCEPT !.pc = "done", !.err = e, !.ctxDone = TRUE]

\* InferStream lines 190-192
StreamEnter ==
  /\ sreq.pc = "start"
  /\ metrics' = [metrics EXCEPT !.activeRequests = @ + 1]
  /\ sreq' = [sreq EXCEPT !.pc = "entered"]
  /\ UNCHANGED <<keys, current, handler, started>>

\* InferStream line 204: the lookup is counted before it is made
StreamCount ==
  /\ sreq.pc = "entered"
  /\ handler.semanticCache
  /\ metrics' = CountLookup(metrics)
  /\ sreq' = [sreq EXCEPT !.pc = "looking"]
  /\ UNCHANGED <<keys, current, handler, started>>

\* InferStream line 205 and the first statement of RecordCacheLookup
StreamLookup(results) ==
  /\ sreq.pc = "looking"
  /\ \E res \in results :
       sreq' = [sreq EXCEPT !.pc = "recording", !.cacheResult = res]
  /\ metrics' = CountLookup(metrics)
  /\ UNCHANGED <<keys, current, handler, started>>

\* InferStream lines 206-222 and the rest of RecordCacheLookup: on a hit
\* the cached response goes downstream as one chunk and the request
\* returns what Send returned
StreamRecord ==
  /\ sreq.pc = "recording"
  /\ IF sreq.cacheResult.Hit
       THEN /\ metrics' =
                 Return([CountHit(metrics) EXCEPT
                           !.requestsTotal.cache_hit = @ + 1])
            /\ \E ok \in BOOLEAN :
                 LET r == sreq.cacheResult.Response
                     c == PbChunk(r.Text, TRUE, r.PromptTokens, r.OutputTokens)
                 IN sreq' =
                      IF ok
                        THEN StreamReturn([sreq EXCEPT !.sent = <<c>>], "nil")
                        ELSE StreamReturn(sreq, "send")
       ELSE /\ metrics' = metrics
            /\ sreq' = [sreq EXCEPT !.pc = "missed"]
  /\ UNCHANGED <<keys, current, handler, started>>

\* InferStream lines 227-240: provider, key pool, key
StreamDrawKey ==
  /\ \/ sreq.pc = "entered" /\ ~handler.semanticCache
     \/ sreq.pc = "missed"
  /\ IF ~handler.providers \/ ~handler.keyPools
       THEN /\ sreq' = StreamReturn(sreq, "config")
            /\ metrics' = Return(metrics)
            /\ UNCHANGED <<keys, current>>
       ELSE LET res == KeyPoolNext(keys, current, now)
            IN /\ keys' = res.keys
               /\ current' = res.current
               /\ IF res.ret.err # "nil"
                    THEN /\ sreq' = StreamReturn(sreq, "keypool")
                         /\ metrics' = Return(metrics)
                    ELSE /\ sreq' = [sreq EXCEPT !.pc = "keyed",
                                                 !.apiKey = res.ret.key]
                         /\ UNCHANGED metrics
  /\ UNCHANGED <<handler, started>>

\* InferStream lines 253-257: p.InferStream fails (the request cannot be
\* built or sent, or upstream answers with another status than 200), or it
\* starts the producer goroutine and returns the channel
StreamOpen ==
  /\ sreq.pc = "keyed"
  /\ \/ /\ sreq' = StreamReturn(sreq, "stream inference failed")
        /\ metrics' = Return([metrics EXCEPT !.requestsTotal.error = @ + 1])
     \/ /\ sreq' = [sreq EXCEPT !.pc = "recv", !.prod.pc = "running"]
        /\ metrics' = metrics
  /\ UNCHANGED <<keys, current, handler, started>>

\* The producer goroutine: one turn of its loop
ProducerTurn ==
  /\ sreq.prod.pc = "running"
  /\ \E ev \in Upstream(sreq.prod.impl, sreq.prod.lines) :
       sreq' = [sreq EXCEPT !.prod = Turn(sreq.prod, ev, sreq.ctxDone)]
  /\ UNCHANGED <<keys, current, handler, metrics, started>>

\* The producer goroutine: ch <- chunk
ProducerPut ==
  /\ sreq.prod.pc = "sending"
  /\ Len(sreq.ch) < ChanCap
  /\ sreq' = [sreq EXCEPT !.ch = Append(@, Head(sreq.prod.pending)),
                          !.prod = Put(sreq.prod)]
  /\ UNCHANGED <<keys, current, handler, metrics, started>>

\* InferStream lines 262-274: for chunk := range chunks gets the next
\* chunk; an error chunk ends the request, another one is accumulated
Accumulate_FirstCounts(s, chunk) ==
  [s EXCEPT !.fullText = @ \o chunk.Text,
            !.promptTokens = IF @ = 0 THEN chunk.PromptTokens ELSE @,
            !.outputTokens = IF @ = 0 THEN chunk.OutputTokens ELSE @]

Accumulate(s, chunk) ==
  [s EXCEPT !.fullText = @ \o chunk.Text,
            !.promptTokens = IF chunk.PromptTokens > 0
                               THEN chunk.PromptTokens ELSE @,
            !.outputTokens = IF chunk.OutputTokens > 0
                               THEN chunk.OutputTokens ELSE @]

StreamRecv ==
  /\ sreq.pc = "recv"
  /\ sreq.ch # <<>>
  /\ LET chunk == Head(sreq.ch)
         s == [sreq EXCEPT !.ch = Tail(@), !.got = Append(@, chunk)]
     IN IF chunk.Err # "nil"
          THEN /\ sreq' = StreamReturn(s, "stream chunk error")
               /\ metrics' = Return(metrics)
          ELSE /\ sreq' = [Accumulate(s, chunk) EXCEPT !.pc = "send"]
               /\ metrics' = metrics
  /\ UNCHANGED <<keys, current, handler, started>>

\* A variant of the forwarding step that hands the text assembled so far
\* to a Store when the downstream send fails.
StreamSend_StoresPartial ==
  /\ sreq.pc = "send"
  /\ LET chunk == sreq.got[Len(sreq.got)]
         c == PbChunk(chunk.Text, chunk.Done,
                      chunk.PromptTokens, chunk.OutputTokens)
     IN \/ /\ sreq' = [sreq EXCEPT !.pc = "recv", !.sent = Append(@, c)]
           /\ metrics' = metrics
           /\ started' = started
        \/ /\ sreq' = StreamReturn(sreq, "send")
           /\ metrics' = Return(metrics)
           /\ started' = Append(started,
                                [Text |-> sreq.fullText,
                                 PromptTokens |-> sreq.promptTokens,
                                 OutputTokens |-> sreq.outputTokens])
  /\ UNCHANGED <<keys, current, handler>>

\* InferStream lines 276-283: stream.Send of the chunk just received
StreamSend ==
  /\ sreq.pc = "send"
  /\ LET chunk == sreq.got[Len(sreq.got)]
         c == PbChunk(chunk.Text, chunk.Done,
                      chunk.PromptTokens, chunk.OutputTokens)
     IN \/ /\ sreq' = [sreq EXCEPT !.pc = "recv", !.sent = Append(@, c)]
           /\ metrics' = metrics
        \/ /\ sreq' = StreamReturn(sreq, "send")
           /\ metrics' = Return(metrics)
  /\ UNCHANGED <<keys, current, handler, started>>

\* InferStream lines 286-302: the channel is closed and drained; the
\* request counts as a success and the assembled response is handed to a
\* detached Store
StreamFinish ==
  /\ sreq.pc = "recv"
  /\ sreq.ch = <<>>
  /\ sreq.prod.pc = "closed"
  /\ metrics' = Return([metrics EXCEPT !.requestsTotal.success = @ + 1])
  /\ started' = IF handler.semanticCache /\ sreq.fullText # <<>>
                  THEN Append(started,
                              [Text |-> sreq.fullText,
                               PromptTokens |-> sreq.promptTokens,
                               OutputTokens |-> sreq.outputTokens])
                  ELSE started
  /\ sreq' = StreamReturn(sreq, "nil")
  /\ UNCHANGED <<keys, current, handler>>

\* The client goes away or the request timeout fires
StreamCancel ==
  /\ sreq.pc \notin {"start", "done"}
  /\ ~sreq.ctxDone
  /\ sreq' = [sreq EXCEPT !.ctxDone = TRUE]
  /\ UNCHANGED <<keys, current, handler, metrics, started>>

\* The handlers a streaming request may meet, and the pools of its provider:
\* one key, one key benched by an earlier failure, two keys
StreamConfigs ==
  [providers : {TRUE}, keyPools : {TRUE}, circuitBreakers : {TRUE},
   maxRetries : {MaxRetries}, semanticCache : BOOLEAN]
    \cup [providers : BOOLEAN, keyPools : {FALSE}, circuitBreakers : {TRUE},
          maxRetries : {MaxRetries}, semanticCache : {TRUE}]

StreamPools ==
  {NewKeyPool(<<"k1">>),
   MarkRateLimited(NewKeyPool(<<"k1">>), "k1", RateLimitWindow),
   NewKeyPool(<<"k1", "k2">>)}

InitStream ==
  /\ now = 0
  /\ NoBreaker /\ NoCache /\ NoRetry
  /\ kpRet = NoReturn
  /\ handler \in StreamConfigs
  /\ IF handler.keyPools THEN keys \in StreamPools ELSE keys = <<>>
  /\ current = 0
  /\ metrics = NewMetrics
  /\ req = <<>> /\ probe = 0
  /\ \E impl \in {"openai", "gemini"} : sreq = NewStream(impl, MaxLines)
  /\ started = <<>>

NextStream ==
  \/ StreamEnter /\ UNCHANGED notStream
  \/ StreamCount /\ UNCHANGED notStream
  \/ StreamLookup(LookupResults) /\ UNCHANGED notStream
  \/ StreamRecord /\ UNCHANGED notStream
  \/ StreamDrawKey /\ UNCHANGED notStream
  \/ StreamOpen /\ UNCHANGED notStream
  \/ ProducerTurn /\ UNCHANGED notStream
  \/ ProducerPut /\ UNCHANGED notStream
  \/ StreamRecv /\ UNCHANGED notStream
  \/ StreamSend /\ UNCHANGED notStream
  \/ StreamFinish /\ UNCHANGED notStream
  \/ StreamCancel /\ UNCHANGED notStream

SpecStream == InitStream /\ [][NextStream]_vars

----------------------------------------------------------------------------
(* A handler with a semantic cache serving NumRequests concurrent requests: *)
(* one InferStream request, whose upstream body holds at most one line, and *)
(* the others unary.  The pool holds two keys, or one key benched by an     *)
(* earlier failure.  The breaker is closed, or was tripped by a failure     *)
(* just before.  The clock stands still.                                    *)

ServeConfigs ==
  [providers : {TRUE}, keyPools : {TRUE}, circuitBreakers : BOOLEAN,
   maxRetries : {0}, semanticCache : {TRUE}]
    \cup [providers : BOOLEAN, keyPools : {FALSE}, circuitBreakers : {TRUE},
          maxRetries : {0}, semanticCache : {TRUE}]

InitServe ==
  /\ now = 0
  /\ NoCache /\ NoRetry
  /\ pc = <<>> /\ err = <<>> /\ thunkCalls = <<>> /\ admittedIn = <<>>
  /\ hist = HistInit
  /\ kpRet = NoReturn
  /\ handler \in ServeConfigs
  /\ IF handler.providers /\ handler.keyPools /\ handler.circuitBreakers
       THEN cb \in {NewCircuitBreaker(1, 0),
                    recordFailure(NewCircuitBreaker(1, 0), now)}
       ELSE cb = NewCircuitBreaker(1, 0)
  /\ IF handler.keyPools
       THEN keys \in {NewKeyPool(<<"k1", "k2">>),
                      MarkRateLimited(NewKeyPool(<<"k1">>), "k1",
                                      RateLimitWindow)}
       ELSE keys = <<>>
  /\ current = 0
  /\ metrics = NewMetrics
  /\ req = [r \in 1..(NumRequests - 1) |-> NewRequest]
  /\ probe = 0
  /\ \E impl \in {"openai", "gemini"} :
       sreq = NewStream(impl, 1)
  /\ started = <<>>

NextServe ==
  \/ \E r \in DOMAIN req : InferEnter(r) /\ UNCHANGED notInfer
  \/ \E r \in DOMAIN req : InferCount(r) /\ UNCHANGED notInfer
  \/ \E r \in DOMAIN req : InferLookup(r, LookupResults) /\ UNCHANGED notInfer
  \/ \E r \in DOMAIN req : InferAnswer(r) /\ UNCHANGED notInfer
  \/ \E r \in DOMAIN req : InferDrawKey(r) /\ UNCHANGED notInfer
  \/ \E r \in DOMAIN req : InferAllow(r) /\ UNCHANGED notInfer
  \/ \E r \in DOMAIN req : InferReject(r) /\ UNCHANGED notInfer
  \/ \E r \in DOMAIN req :
       /\ InferRecord(r, AnyOutcomes(handler.maxRetries),
                      AnyCancel(handler.maxRetries))
       /\ UNCHANGED notInfer
  \/ \E r \in DOMAIN req :
       /\ InferDirect(r, AnyOutcomes(handler.maxRetries),
                      AnyCancel(handler.maxRetries))
       /\ UNCHANGED notInfer
  \/ \E r \in DOMAIN req : InferObserve(r) /\ UNCHANGED notInfer
  \/ \E r \in DOMAIN req : InferFinish(r) /\ UNCHANGED notInfer
  \/ \E r \in DOMAIN req : InferStore(r) /\ UNCHANGED notInfer
  \/ StreamEnter /\ UNCHANGED notStream
  \/ StreamCount /\ UNCHANGED notStream
  \/ StreamLookup(LookupResults) /\ UNCHANGED notStream
  \/ StreamRecord /\ UNCHANGED notStream
  \/ StreamDrawKey /\ UNCHANGED notStream
  \/ StreamOpen /\ UNCHANGED notStream
  \/ ProducerTurn /\ UNCHANGED notStream
  \/ ProducerPut /\ UNCHANGED notStream
  \/ StreamRecv /\ UNCHANGED notStream
  \/ StreamSend /\ UNCHANGED notStream
  \/ StreamFinish /\ UNCHANGED notStream
  \/ StreamCancel /\ UNCHANGED notStream

SpecServe == InitServe /\ [][NextServe]_vars

----------------------------------------------------------------------------
(* One InferStream request whose upstream body holds more lines than the    *)
(* channel has room for, every text line the same and without usage.  The   *)
(* Go scheduler runs every goroutine that can take a step: the producer     *)
(* when it is at its loop or its send has room, the handler when a chunk    *)
(* or the close of the channel is there to receive and when Send returns.   *)
(* When the client goes away is left open.                                  *)

\* The producer's next chunks are plain: the text "a" and no token counts
Steady(p) ==
  /\ p.totalPromptTokens = 0 /\ p.totalOutputTokens = 0
  /\ \A i \in DOMAIN p.pending :
       /\ p.pending[i].Text \in {<<>>, <<"a">>}
       /\ p.pending[i].Text = <<>> =>
            p.pending[i].Done \/ p.pending[i].Err # "nil"
       /\ p.pending[i].PromptTokens = 0 /\ p.pending[i].OutputTokens = 0

ProducerStep ==
  /\ (ProducerTurn /\ Steady(sreq'.prod)) \/ ProducerPut
  /\ UNCHANGED notStream

HandlerStep ==
  /\ \/ StreamEnter \/ StreamCount \/ StreamLookup(LookupResults)
     \/ StreamRecord \/ StreamDrawKey \/ StreamOpen
     \/ StreamRecv \/ StreamSend \/ StreamFinish
  /\ UNCHANGED notStream

InitLeak ==
  /\ now = 0
  /\ NoBreaker /\ NoCache /\ NoRetry
  /\ kpRet = NoReturn
  /\ handler = [providers |-> TRUE, keyPools |-> TRUE,
                circuitBreakers |-> TRUE, maxRetries |-> MaxRetries,
                semanticCache |-> TRUE]
  /\ keys = NewKeyPool(<<"k1">>)
  /\ current = 0
  /\ metrics = NewMetrics
  /\ req = <<>> /\ probe = 0
  /\ \E impl \in {"openai", "gemini"} : sreq = NewStream(impl, ChanCap + 1)
  /\ started = <<>>

NextLeak ==
  \/ StreamEnter /\ UNCHANGED notStream
  \/ StreamCount /\ UNCHANGED notStream
  \/ StreamLookup(LookupResults) /\ UNCHANGED notStream
  \/ StreamRecord /\ UNCHANGED notStream
  \/ StreamDrawKey /\ UNCHANGED notStream
  \/ StreamOpen /\ UNCHANGED notStream
  \/ ProducerTurn /\ Steady(sreq'.prod) /\ UNCHANGED notStream
  \/ ProducerPut /\ UNCHANGED notStream
  \/ StreamRecv /\ UNCHANGED notStream
  \/ StreamSend /\ UNCHANGED notStream
  \/ StreamFinish /\ UNCHANGED notStream
  \/ StreamCancel /\ UNCHANGED notStream

SpecLeak ==
  InitLeak /\ [][NextLeak]_vars /\ WF_vars(ProducerStep) /\ WF_vars(HandlerStep)

----------------------------------------------------------------------------
(* The cache step of NumRequests concurrent requests on a handler with a    *)
(* semantic cache, with metrics.RecordCacheLookup taken statement by        *)
(* statement.  cache_lookups_total and cache_hits_total are Prometheus      *)
(* counters, whose Inc() is atomic; totalLookups and totalHits are package  *)
(* variables that RecordCacheLookup reads and writes without a lock, so     *)
(* that `x++` is a read and a later write.  The gauge holds a quotient,     *)
(* kept as the pair it was computed from.                                   *)

notRatio == <<now, cbVars, kpVars, cacheVars, handler, probe, retryVars,
              streamVars>>

\* The registry and the package variables at start: all zero
NewTallies ==
  [cacheLookupsTotal |-> 0, cacheHitsTotal |-> 0,
   totalLookups |-> 0, totalHits |-> 0,
   cacheHitRatio |-> [hits |-> 0, lookups |-> 1]]

\* handler.go lines 70-71 (204-205 for a stream): the lookup is counted,
\* then made
HandlerLookup(r) ==
  /\ req[r].pc = "start"
  /\ IF r = 1 THEN TRUE ELSE req[r - 1].pc # "start"
  /\ metrics' = [metrics EXCEPT !.cacheLookupsTotal = @ + 1]
  /\ \E hit \in BOOLEAN :
       req' = [req EXCEPT ![r].pc = "record", ![r].hit = hit]

\* RecordCacheLookup lines 89-90: CacheLookupsTotal.Inc(), and the read of
\* totalLookups++
RecordLookup(r) ==
  /\ req[r].pc = "record"
  /\ metrics' = [metrics EXCEPT !.cacheLookupsTotal = @ + 1]
  /\ req' = [req EXCEPT ![r].pc = "writeLookups",
                        ![r].tmp = metrics.totalLookups]

\* line 90: the write of totalLookups++
RecordWriteLookups(r) ==
  /\ req[r].pc = "writeLookups"
  /\ metrics' = [metrics EXCEPT !.totalLookups = req[r].tmp + 1]
  /\ req' = [req EXCEPT ![r].pc = IF req[r].hit THEN "hit" ELSE "ratio"]

\* lines 92-94: CacheHitsTotal.Inc(), and the read of totalHits++
RecordHit(r) ==
  /\ req[r].pc = "hit"
  /\ metrics' = [metrics EXCEPT !.cacheHitsTotal = @ + 1]
  /\ req' = [req EXCEPT ![r].pc = "writeHits", ![r].tmp = metrics.totalHits]

\* line 94: the write of totalHits++
RecordWriteHits(r) ==
  /\ req[r].pc = "writeHits"
  /\ metrics' = [metrics EXCEPT !.totalHits = req[r].tmp + 1]
  /\ req' = [req EXCEPT ![r].pc = "ratio"]

\* lines 98-99: totalLookups > 0 holds after line 90; totalHits is read
RecordReadHits(r) ==
  /\ req[r].pc = "ratio"
  /\ metrics' = metrics
  /\ req' = [req EXCEPT ![r].pc = "set", ![r].tmp = metrics.totalHits]

\* line 99: totalLookups is read and the gauge is set to the quotient
RecordSet(r) ==
  /\ req[r].pc = "set"
  /\ metrics' = [metrics EXCEPT
       !.cacheHitRatio = [hits |-> req[r].tmp,
                          lookups |-> metrics.totalLookups]]
  /\ req' = [req EXCEPT ![r].pc = "done"]

InitRatio ==
  /\ now = 0
  /\ NoBreaker /\ NoKeyPool /\ NoCache /\ NoRetry /\ NoStream
  /\ handler = <<>> /\ probe = 0
  /\ metrics = NewTallies
  /\ req = [r \in 1..NumRequests |-> [pc |-> "start", hit |-> FALSE, tmp |-> 0]]

NextRatio ==
  \/ \E r \in DOMAIN req : HandlerLookup(r) /\ UNCHANGED notRatio
  \/ \E r \in DOMAIN req : RecordLookup(r) /\ UNCHANGED notRatio
  \/ \E r \in DOMAIN req : RecordWriteLookups(r) /\ UNCHANGED notRatio
  \/ \E r \in DOMAIN req : RecordHit(r) /\ UNCHANGED notRatio
  \/ \E r \in DOMAIN req : RecordWriteHits(r) /\ UNCHANGED notRatio
  \/ \E r \in DOMAIN req : RecordReadHits(r) /\ UNCHANGED notRatio
  \/ \E r \in DOMAIN req : RecordSet(r) /\ UNCHANGED notRatio

SpecRatio == InitRatio /\ [][NextRatio]_vars

----------------------------------------------------------------------------
(* Claims about the benching of keys by Handler.Infer, checked under        *)
(* SpecBench                                                                *)

\* The entry is in its cooldown at clock reading t
Benched(e, t) == e.Exhausted /\ ~After(t, e.ResetAt)

\* The step in which request r calls KeyPool.Next
Draws(r) == req[r].pc = "entered" /\ req'[r].pc \in {"keyed", "done"}

C39_OneKeyPerRequest ==
  [][\A r \in DOMAIN req :
       req'[r] # req[r]
       => LET drawing == /\ req[r].pc \in {"entered", "missed"}
                         /\ req'[r].pc \in {"keyed", "done"}
                         /\ handler.providers /\ handler.keyPools
              res == KeyPoolNext(keys, current, now)
              n == Len(keys)
          IN /\ drawing
                  => /\ current' = res.current /\ keys' = res.keys
                     /\ req'[r].pc = "keyed"
                          => /\ req'[r].apiKey = res.ret.key
                             /\ keys[((current' + n - 1) % n) + 1].Key
                                  = req'[r].apiKey
                     /\ req'[r].pc = "done" => current' = current
             /\ ~drawing => current' = current
             /\ req[r].pc \in {"keyed", "admitted", "rejecting", "executed"}
                  => req'[r].apiKey = req[r].apiKey /\ keys' = keys
             /\ req[r].pc = "observed"
                  => \A i \in 1..n :
                       keys'[i] # keys[i] => keys[i].Key = req[r].apiKey]_vars

\* C39 witness: the first request drew k1, failed and benched it; the
\* second drew k2, moving the cursor on, and was rejected by the breaker
C39_Witness ==
  /\ Len(keys) = 2 /\ current = 0
  /\ keys[1].Exhausted /\ ~keys[2].Exhausted
  /\ \E r \in DOMAIN req :
       /\ req[r].err = "open" /\ req[r].pc = "observed"
       /\ req[r].apiKey = "k2"

----------------------------------------------------------------------------
(* Claims about the handler's metrics and its cache step, checked under     *)
(* SpecServe                                                                *)

InFlight ==
  Cardinality({r \in DOMAIN req : req[r].pc \notin {"start", "done"}})
    + (IF sreq.pc \notin {"start", "done"} THEN 1 ELSE 0)

\* C15: each Infer and InferStream call increments the active_requests
\* gauge exactly once at entry and decrements it exactly once on every exit
\* path, so the gauge always equals the number of requests in flight and
\* returns to its pre-request value.
C15_GaugeEqualsInFlight == metrics.activeRequests = InFlight

\* All requests have returned, the streaming one on a chunk error and a
\* unary one from the cache, and the gauge is back at 0
C15_Witness ==
  /\ sreq.pc = "done" /\ sreq.err = "stream chunk error"
  /\ \A r \in DOMAIN req : req[r].pc = "done"
  /\ \E r \in DOMAIN req : req[r].cacheResult.Hit
  /\ metrics.activeRequests = 0

\* C16: in every reachable state, under any interleaving of concurrent
\* Infer and InferStream requests, cache_hits_total <= cache_lookups_total.
C16_HitsAtMostLookups == metrics.cacheHitsTotal <= metrics.cacheLookupsTotal

\* A unary and a streaming request have both hit the cache
C16_Witness ==
  /\ metrics.cacheHitsTotal = 2
  /\ sreq.cacheResult.Hit /\ sreq.pc = "done"
  /\ \E r \in DOMAIN req : req[r].cacheResult.Hit /\ req[r].pc = "done"

\* C17: a unary Infer whose cache Lookup hits returns the cached text and
\* token counts with cache_hit = true without drawing a key from the pool,
\* invoking the provider, or touching the breaker (no step of such a
\* request changes the pool or the breaker); every unary Infer response
\* built from a provider result has cache_hit = false.
C17_HitAnsweredFromCache ==
  [][\A r \in DOMAIN req :
       /\ req'[r].cacheResult.Hit /\ req'[r] # req[r] =>
            /\ keys' = keys /\ current' = current /\ cb' = cb
            /\ req'[r].apiKey = "" /\ ~req'[r].reached
            /\ req'[r].pc \in {"recording", "done"}
            /\ req'[r].pc = "done" =>
                 /\ req'[r].err = "nil"
                 /\ req'[r].resp =
                      [Text |-> req[r].cacheResult.Response.Text,
                       PromptTokens |->
                         req[r].cacheResult.Response.PromptTokens,
                       OutputTokens |->
                         req[r].cacheResult.Response.OutputTokens,
                       CacheHit |-> TRUE]
       /\ req[r].pc = "counted" /\ req'[r].pc = "done" =>
            /\ req'[r].err = "nil" /\ req'[r].reached
            /\ ~req'[r].resp.CacheHit
            /\ req'[r].resp.Text = ProviderResponse.Text
     ]_vars

\* A unary request has been answered from the cache, in a handler with a
\* provider, a key pool and a breaker, while the streaming request holds a
\* key
C17_Witness ==
  /\ handler.providers /\ handler.keyPools /\ handler.circuitBreakers
  /\ sreq.apiKey # ""
  /\ \E r \in DOMAIN req :
       /\ req[r].pc = "done" /\ req[r].cacheResult.Hit
       /\ req[r].resp.CacheHit /\ req[r].resp.Text = <<"a">>

\* C22: within a single unary request, the cache lookup completes before
\* any provider call; the successful provider call completes before success
\* metrics are recorded; success metrics are recorded before the detached
\* Store task is started; and a Store task is started only for requests
\* whose provider call succeeded.
C22_EventsInOrder ==
  /\ \A r \in DOMAIN req :
       LET ev == req[r].events
           At(e) == {i \in DOMAIN ev : ev[i] = e}
           calls == At("call") \cup At("call ok")
       IN /\ \A i \in At("lookup") : \A j \in calls : i < j
          /\ handler.semanticCache /\ calls # {} => At("lookup") # {}
          /\ \A j \in At("metrics") : \E i \in At("call ok") : i < j
          /\ \A j \in At("store") : \E i \in At("metrics") : i < j
          /\ At("store") # {} => At("call ok") # {}
  /\ Cardinality({r \in DOMAIN req :
                    \E i \in DOMAIN req[r].events :
                      req[r].events[i] = "metrics"})
       <= metrics.requestsTotal.success
  /\ Cardinality({r \in DOMAIN req :
                    \E i \in DOMAIN req[r].events :
                      req[r].events[i] = "store"})
       <= Len(started)

\* A unary request has missed the cache, been answered by the provider,
\* been counted and has started its Store task
C22_Witness ==
  \E r \in DOMAIN req :
    /\ req[r].pc = "done"
    /\ req[r].events = <<"lookup", "call ok", "metrics", "store">>
    /\ started # <<>>

\* C23: an InferStream request routed to a provider whose breaker is Open
\* with the cooldown not elapsed fails without invoking the provider: the
\* request leaves the point where it holds its key only by returning the
\* breaker's rejection, and no producer is started.
C23_OpenBreakerBlocksStream ==
  [][/\ handler.circuitBreakers
     /\ cb.state = StateOpen /\ ~(Since(cb.lastFailure, now) > cb.cooldown)
     /\ sreq.pc = "keyed" /\ sreq'.pc # "keyed"
     => sreq'.pc = "done" /\ sreq'.err = "open" /\ sreq'.prod.pc = "none"]_vars

\* C32: if a downstream send fails during InferStream, the handler stops
\* forwarding further chunks, returns the send error, does not start a Store
\* task, and leaves the provider's breaker state and counters unchanged.
C32_SendFailureAborts ==
  [][/\ sreq.pc # "done" /\ sreq'.pc = "done" /\ sreq'.err = "send"
          => /\ sreq'.sent = sreq.sent
             /\ started' = started
             /\ cb' = cb
     /\ sreq.pc = "done" => sreq'.pc = "done" /\ sreq'.sent = sreq.sent]_vars

\* C32 witness: the send of a chunk from the provider has failed with
\* another chunk still waiting in the channel, on a handler whose breaker
\* holds a failure
C32_Witness ==
  /\ sreq.pc = "done" /\ sreq.err = "send"
  /\ sreq.got # <<>> /\ sreq.sent = <<>> /\ sreq.ch # <<>>
  /\ handler.circuitBreakers /\ cb.totalFailures >= 1

\* C38: every completed Infer and every completed InferStream call
\* increments exactly one of requests_total{status=success},
\* requests_total{status=error} and requests_total{status=cache_hit},
\* exactly once, on every exit path: with no call under way the three
\* counters add up to the number of completed calls.
C38_EveryExitCounted ==
  (/\ \A r \in DOMAIN req : req[r].pc \in {"start", "done"}
   /\ sreq.pc \in {"start", "done"})
  => metrics.requestsTotal.success + metrics.requestsTotal.error
       + metrics.requestsTotal.cache_hit
     = Cardinality({r \in DOMAIN req : req[r].pc = "done"})
         + (IF sreq.pc = "done" THEN 1 ELSE 0)

----------------------------------------------------------------------------
(* Claims about the cache hit ratio, checked under SpecRatio                *)

\* C33: after every cache lookup performed by a request, the
\* cache_hit_ratio gauge equals cache_hits_total divided by
\* cache_lookups_total, the values of the two exported counters (with no
\* lookup under way).
C33_RatioOfCounters ==
  (/\ \E r \in DOMAIN req : req[r].pc = "done"
   /\ \A r \in DOMAIN req : req[r].pc \in {"start", "done"})
  => metrics.cacheHitRatio.hits * metrics.cacheLookupsTotal
       = metrics.cacheHitsTotal * metrics.cacheHitRatio.lookups

\* C34: with concurrent requests, after n RecordCacheLookup calls of which
\* h were hits have all completed, the tallies behind cache_hit_ratio equal
\* exactly n lookups and h hits: no update is lost.
C34_NoLostUpdate ==
  (\A r \in DOMAIN req : req[r].pc \in {"start", "done"})
  => /\ metrics.totalLookups =
          Cardinality({r \in DOMAIN req : req[r].pc = "done"})
     /\ metrics.totalHits =
          Cardinality({r \in DOMAIN req : req[r].pc = "done" /\ req[r].hit})

----------------------------------------------------------------------------
(* Claims about the producer goroutine, checked under SpecLeak              *)

\* C24: for every provider InferStream call that returned a channel, the
\* producer eventually closes the channel once the upstream stream has
\* finished or the request context has been cancelled, even when the
\* consumer has stopped receiving.
C24_ProducerCloses ==
  [](sreq.prod.pc \in {"running", "sending"} => <>(sreq.prod.pc = "closed"))

----------------------------------------------------------------------------
(* Claims about streaming, checked under SpecStream                         *)

\* The chunks the producer has delivered on the channel so far, in order:
\* those the handler has received, then those still in the buffer
Delivered == sreq.got \o sreq.ch
Terminal(chunk) == chunk.Done \/ chunk.Err # "nil"

\* C19: every chunk sequence delivered on a channel returned by a
\* provider's InferStream contains exactly one terminal event (a chunk with
\* Done = true or with a non-nil Err), and that event is the last chunk
\* before the channel closes: no chunk ever follows a terminal one, and
\* when the channel is closed its last chunk is terminal.
C19_ExactlyOneTerminalLast ==
  /\ \A i \in 1..Len(Delivered) :
       Terminal(Delivered[i]) => i = Len(Delivered)
  /\ sreq.prod.pc = "closed" =>
       Len(Delivered) > 0 /\ Terminal(Delivered[Len(Delivered)])

\* What the chunks received so far add up to: their texts concatenated in
\* order, and for each token count the last positive value carried
RECURSIVE ConcatTexts(_)
ConcatTexts(chunks) ==
  IF chunks = <<>>
    THEN <<>>
    ELSE ConcatTexts(SubSeq(chunks, 1, Len(chunks) - 1))
           \o chunks[Len(chunks)].Text

LastPositive(chunks, field) ==
  LET carrying == {i \in 1..Len(chunks) : chunks[i][field] > 0}
  IN IF carrying = {}
       THEN 0
       ELSE chunks[CHOOSE i \in carrying : \A j \in carrying : j <= i][field]

Assembled ==
  [Text |-> ConcatTexts(sreq.got),
   PromptTokens |-> LastPositive(sreq.got, "PromptTokens"),
   OutputTokens |-> LastPositive(sreq.got, "OutputTokens")]

\* The request missed the cache; it has returned nil after the channel was
\* closed and drained, in a handler that has a cache
StreamMissed == sreq.pc \notin {"start", "entered", "looking", "recording"}
                  /\ ~sreq.cacheResult.Hit
StreamSucceeded ==
  handler.semanticCache /\ StreamMissed /\ sreq.pc = "done" /\ sreq.err = "nil"

\* On a miss the chunks sent downstream are the chunks received, in the
\* same order, and each is sent before the next is received
ForwardedInOrder ==
  StreamMissed =>
    /\ Len(sreq.sent) <= Len(sreq.got)
    /\ Len(sreq.got) <= Len(sreq.sent) + 1
    /\ sreq.pc = "recv" => Len(sreq.sent) = Len(sreq.got)
    /\ \A i \in 1..Len(sreq.sent) :
         sreq.sent[i] = PbChunk(sreq.got[i].Text, sreq.got[i].Done,
                                sreq.got[i].PromptTokens,
                                sreq.got[i].OutputTokens)

\* C20 (as stated): in InferStream on a cache miss, chunks are sent
\* downstream in exactly the order they are received from the provider,
\* each one sent before the next is read; and when the provider channel
\* closes without error, the detached Store is invoked with the
\* concatenation of all chunk texts in order and the last positive token
\* counts carried by any chunk.
C20_StoreAlwaysInvoked ==
  /\ ForwardedInOrder
  /\ StreamSucceeded => started = <<Assembled>>

\* C20 (amended): the same forwarding order; when the provider channel
\* closes without error, the detached Store is invoked with the
\* concatenated text and the last positive token counts if that text is
\* not empty, and no Store is invoked if it is empty.
C20_StoreUnlessEmpty ==
  /\ ForwardedInOrder
  /\ StreamSucceeded =>
       started = IF Assembled.Text # <<>> THEN <<Assembled>> ELSE <<>>

\* A stream of several chunks with different texts and token counts has
\* been forwarded and its assembled response handed to Store
C20_Witness ==
  /\ StreamSucceeded
  /\ Len(sreq.sent) >= 3
  /\ started = <<[Text |-> <<"a", "b">>, PromptTokens |-> 4,
                  OutputTokens |-> 1]>>

\* C35: InferStream records success metrics and starts a Store task only
\* for streams in which the provider delivered a terminal chunk (Done =
\* true) with no error chunk; a provider channel that closes without any
\* terminal chunk is not counted as a success and its partial text is not
\* cached.
C35_SuccessNeedsDone ==
  (metrics.requestsTotal.success > 0 \/ started # <<>>)
  => /\ \E i \in DOMAIN sreq.got : sreq.got[i].Done
     /\ \A i \in DOMAIN sreq.got : sreq.got[i].Err = "nil"

----------------------------------------------------------------------------
(* Claims about the semantic cache, checked under SpecCache                 *)

\* C1: after Store(p, r) has completed with no embedder, KV or vector-store
\* fault, a later Lookup(p) that meets no fault, with the KV entry of p not
\* expired (and no Store of another response for p), returns Hit = true with
\* Response = r.
C1_LookupAfterStoreHits ==
  \A l \in LookupIds : \A s \in lookup[l].after :
    ( /\ lookup[l].pc = "returned"
      /\ lookup[l].fault = "none"
      /\ store[s].prompt = lookup[l].prompt
      /\ \A s2 \in StoreIds :
           (store[s2].pc # "idle" /\ store[s2].prompt = store[s].prompt)
             => store[s2].resp = store[s].resp
      /\ cacheKeyFromPrompt(lookup[l].prompt) \in DOMAIN redis )
    => lookup[l].result = [Hit |-> TRUE, Response |-> store[s].resp]

\* C31: after any Store call has finished, whether it completed or aborted
\* on an embedder, KV or vector-store fault, every unexpired fingerprint
\* present in the KV store has a corresponding point in the vector index
\* whose payload carries that fingerprint.
C31_KeyHasPoint ==
  (/\ \E s \in StoreIds : store[s].pc = "returned"
   /\ \A s \in StoreIds : store[s].pc \in {"idle", "returned"})
  => \A k \in DOMAIN redis : \E pt \in qdrant : pt.Payload.cache_key = k

\* C21: a fault of the embedder, the vector search or the KV get during a
\* cache lookup never makes Infer or InferStream fail: Lookup returns a miss
\* with a nil error (and every Lookup returns a nil error), so the request
\* goes on to provider resolution as on an ordinary miss.
C21_FaultIsMiss ==
  \A l \in LookupIds :
    lookup[l].pc = "returned" =>
      /\ lookup[l].err = "nil"
      /\ lookup[l].fault # "none" => lookup[l].result = Miss

\* The vector search found a point whose response is in the KV store, and
\* the KV get failed
C21_Witness ==
  \E l \in LookupIds :
    /\ lookup[l].pc = "returned" /\ lookup[l].fault = "get"
    /\ lookup[l].result = Miss /\ lookup[l].err = "nil"
    /\ \E pt \in qdrant :
         pt.ID = lookup[l].ID /\ pt.Payload.cache_key \in DOMAIN redis

----------------------------------------------------------------------------
(* Claims about the circuit breaker, checked under SpecBreaker              *)

Admits(c) == pc[c] = "idle" /\ pc'[c] = "admitted"
Rejects(c) == pc[c] = "idle" /\ pc'[c] = "rejecting"
RecordsFailure(c) == pc[c] = "returned" /\ pc'[c] = "failed"
RecordsSuccess(c) == pc[c] = "returned" /\ pc'[c] = "succeeded"

C3_HalfOpenFailureReopens ==
  [][\A c \in Calls :
       (RecordsFailure(c) /\ cb.state = StateHalfOpen)
         => (cb'.state = StateOpen /\ cb'.lastFailure = now)]_vars

\* C30: when several probes are in flight while the breaker is HalfOpen, the
\* stored state after all of them have completed is the one set by the first
\* probe result to land, whatever the later probe results are, for every
\* threshold: once a probe result has landed and taken the breaker out of
\* HalfOpen, the landing of another probe's result leaves the stored state
\* as it is.  The calls admitted while the breaker was Closed have all
\* failed, so that only probes are in flight and only a probe has
\* succeeded.
C30_FirstProbeResultWins ==
  [][\A c \in DOMAIN pc :
       /\ RecordsFailure(c) \/ RecordsSuccess(c)
       /\ admittedIn[c] \in {StateOpen, StateHalfOpen}
       /\ \A e \in DOMAIN pc : admittedIn[e] = StateClosed => pc[e] = "failed"
       /\ cb.state # StateHalfOpen
       => cb'.state = cb.state]_vars

C5_RejectionFrame ==
  [][\A c \in Calls :
       /\ (pc[c] = "idle" /\ pc'[c] # "idle" /\ cb.state = StateOpen
             /\ now - cb.lastFailure <= cb.cooldown)
            => (pc'[c] = "rejecting" /\ cb' = cb /\ thunkCalls'[c] = 0)
       /\ (pc[c] = "rejecting" /\ pc'[c] # "rejecting")
            => /\ pc'[c] = "rejected"
               /\ err'[c] = "ErrCircuitOpen"
               /\ thunkCalls'[c] = 0
               /\ cb' = [cb EXCEPT !.totalRejected = cb.totalRejected + 1]]_vars

\* C5 witness: a call found the breaker Open, was rejected and counted.
C5_Witness ==
  \E c \in Calls :
    /\ pc[c] = "rejected" /\ admittedIn[c] = StateOpen
    /\ err[c] = "ErrCircuitOpen" /\ cb.totalRejected >= 1

\* C6: a success recorded while the stored state is HalfOpen closes the
\* breaker, and every recorded success, in any state, sets
\* consecutiveFailures to 0.
C6_SuccessResets ==
  [][\A c \in Calls :
       RecordsSuccess(c)
         => /\ cb'.consecutiveFailures = 0
            /\ cb.state = StateHalfOpen => cb'.state = StateClosed]_vars

\* C6 witness: a probe admitted from Open succeeded and the breaker is Closed
\* again, and a success also landed while the breaker stayed Open.
C6_Witness ==
  /\ cb.state = StateClosed
  /\ cb.totalFailures >= cb.failureThreshold
  /\ \E c \in Calls : admittedIn[c] = StateOpen /\ pc[c] = "succeeded"

\* C8: a call admitted while the breaker is Closed invokes the thunk exactly
\* once and, on completion, adds exactly 1 to exactly one of totalSuccesses
\* and totalFailures and nothing to totalRejected; the three counters never
\* decrease.
C8_ClosedCallCountedOnce ==
  [][/\ cb'.totalSuccesses >= cb.totalSuccesses
     /\ cb'.totalFailures >= cb.totalFailures
     /\ cb'.totalRejected >= cb.totalRejected
     /\ \A c \in Calls :
          /\ admittedIn'[c] = StateClosed => thunkCalls'[c] <= 1
          /\ (admittedIn[c] = StateClosed /\ pc[c] = "returned"
                /\ pc'[c] # "returned")
               => /\ thunkCalls[c] = 1 /\ thunkCalls'[c] = 1
                  /\ cb'.totalRejected = cb.totalRejected
                  /\ \/ /\ cb'.totalSuccesses = cb.totalSuccesses + 1
                        /\ cb'.totalFailures = cb.totalFailures
                     \/ /\ cb'.totalFailures = cb.totalFailures + 1
                        /\ cb'.totalSuccesses = cb.totalSuccesses]_vars

\* C8 witness: two calls admitted while Closed have completed, one with a
\* failure and one with a success.
C8_Witness ==
  \E c, d \in Calls :
    /\ admittedIn[c] = StateClosed /\ pc[c] = "failed"
    /\ admittedIn[d] = StateClosed /\ pc[d] = "succeeded"
    /\ thunkCalls[c] = 1 /\ thunkCalls[d] = 1

----------------------------------------------------------------------------
(* Claims about Handler.Infer                                               *)

AllDone == \A r \in DOMAIN req : req[r].pc = "done"
Reached == {r \in DOMAIN req : req[r].reached}
Rejected == {r \in DOMAIN req : req[r].err = "open"}
KeyFailed == {r \in DOMAIN req : req[r].err = "keypool"}

\* C27: a unary Infer whose provider attempts all fail with
\* upstream-transient errors records exactly one breaker failure (the
\* consecutive-failure counter and the failure counter each go up by one)
\* when the retry budget is exhausted, however many attempts were made: the
\* failures counted are as many as the requests that came back exhausted.
C27_OneFailurePerExhaustedRetry ==
  [][/\ \A r \in DOMAIN req :
          req[r].pc = "admitted" /\ req'[r].pc = "executed"
            /\ req'[r].err = "e5xx"
          => /\ \A outs \in AlwaysFails(handler.maxRetries) :
                  Retry(handler.maxRetries, outs, 0 - 1) =
                    [err |-> "e5xx", calls |-> handler.maxRetries + 1]
             /\ cb'.consecutiveFailures = cb.consecutiveFailures + 1
             /\ cb'.totalFailures = cb.totalFailures + 1
             /\ cb'.totalSuccesses = cb.totalSuccesses
             /\ cb'.totalRejected = cb.totalRejected
     /\ cb'.totalFailures =
          Cardinality({r \in DOMAIN req : req'[r].err = "e5xx"})]_vars

\* C27 witness: two requests have exhausted their retries, each after more
\* than one attempt, and two failures are counted
C27_Witness ==
  /\ handler.maxRetries >= 1
  /\ Cardinality({r \in DOMAIN req :
                    req[r].err = "e5xx" /\ req[r].pc = "done"}) = 2
  /\ cb.totalFailures = 2 /\ cb.consecutiveFailures = 2

\* C28: a unary Infer that fails because the resolved provider or its key
\* pool is absent, or because the key pool reports all keys exhausted,
\* invokes no provider and leaves the breaker's stored state and all its
\* counters unchanged: no step of a request that has not drawn a key
\* touches the breaker, and such a request returns without a provider call.
C28_KeyFailureLeavesBreaker ==
  [][\A r \in DOMAIN req :
       /\ req[r].pc \in {"start", "entered", "looking", "recording", "missed"}
            /\ req'[r] # req[r]
          => cb' = cb
       /\ req[r].pc # "done" /\ req'[r].pc = "done"
            /\ req'[r].err \in {"config", "keypool"}
          => /\ cb' = cb
             /\ ~req'[r].reached
             /\ \A i \in DOMAIN req'[r].events :
                  req'[r].events[i] \notin {"call", "call ok"}]_vars

\* C28 witness: a request has failed for want of a key while the breaker
\* holds an earlier failure
C28_Witness ==
  /\ cb.totalFailures >= 1
  /\ \E r \in DOMAIN req :
       req[r].pc = "done" /\ req[r].err = "keypool" /\ ~req[r].reached

\* C29: State() returns HalfOpen exactly when the stored state is HalfOpen
\* or the stored state is Open with now - last_failure > C, otherwise it
\* returns the stored state; and calling State() never changes the stored
\* state, the counters or last_failure.
C29_StateObservesOnly ==
  [][\A r \in DOMAIN req :
       req[r].pc = "executed" /\ req'[r].pc = "observed"
       => LET elapsed == now - cb.lastFailure > cb.cooldown
              probing == \/ cb.state = StateHalfOpen
                         \/ cb.state = StateOpen /\ elapsed
              got == metrics'.circuitBreakerState
          IN /\ got = StateValue(StateHalfOpen) <=> probing
             /\ ~probing => got = StateValue(cb.state)
             /\ cb' = cb]_vars

\* C29 witness: State() has just reported HalfOpen for a breaker that is
\* stored Open with its cooldown elapsed
C29_Witness ==
  /\ cb.state = StateOpen /\ now - cb.lastFailure > cb.cooldown
  /\ metrics.circuitBreakerState = StateValue(StateHalfOpen)
  /\ \E r \in DOMAIN req : req[r].pc = "observed" /\ req[r].err = "open"

C7_ProbeSucceeds ==
  \A r \in DOMAIN req :
    (/\ probe = r
     /\ req[r].pc = "done"
     /\ \A q \in DOMAIN req :
          /\ q < r => req[q].pc = "done" /\ req[q].err \in {"e5xx", "open"}
          /\ q > r => req[q].pc = "start"
     /\ req[r].err \notin {"e5xx", "e4xx", "ctx"})
      => /\ req[r].err = "nil"
         /\ cb.state = StateClosed
         /\ cb.consecutiveFailures = 0

====
